---- MODULE Spec2Model ----
(***************************************************************************)
(* Running Dinner assignment engine (PyRudi).                              *)
(*                                                                         *)
(* Part 1 models one RunningDinnerOptimizer instance executing optimize()  *)
(* (src/events/optimization.py).  Part 2 models the start_optimization     *)
(* view (src/events/views.py) with its database statements.                *)
(*                                                                         *)
(* Distances are integers in units of 0.1 km.  Teams are identified by     *)
(* their position in the registration list; 0 stands for Python's None.    *)
(***************************************************************************)
EXTENDS Integers, Sequences, FiniteSets, TLC

\* ------------------------------------------------------------------ bounds
MaxTeams == 7          \* confirmed registrations, runs without kitchens
MaxKitchenTeams == 4   \* confirmed registrations, runs with kitchens / after-party
MaxCoord == 1          \* locations lie on a line at 0..MaxCoord km
MaxRotation == 1       \* shuffles considered: rotations by 0..MaxRotation
MaxKitchens == 1       \* active guest kitchens of the event
MaxCapacity == 1       \* GuestKitchen.max_teams ranges over 1..MaxCapacity
Spacing == 4           \* km between neighbouring locations on the line

\* ------------------------------------------------------- program constants
None == 0
appetizer == 1
main_course == 2
dessert == 3
k == 3                 \* self.k, target group size
Inf == 100000          \* float('inf') for distances
FallbackError == 25    \* 2.5 km
MinSavings == 30       \* 3.0 km
MinImprovement == 1    \* 0.1 km
DefaultMaxIterations == 3
DiversityWeight == 10000   \* 1000 per meeting, in units of 0.1
MipTeamLimit == 6      \* optimize(): MIP is tried for at most 6 teams
MinTeams == 3          \* load_teams: at least 3 host teams
LogLimit == 50         \* _update_progress keeps the last 50 log entries
TotalSteps == 5
P1 == 1000             \* 100.0
P2 == 1000             \* 100.0
P3 == 500              \* 50.0

courses == <<appetizer, main_course, dessert>>
Courses == {appetizer, main_course, dessert}

\* ------------------------------------------------------------ small helpers
Range(s) == {s[i] : i \in DOMAIN s}
Min2(a, b) == IF a < b THEN a ELSE b
Max2(a, b) == IF a > b THEN a ELSE b
SetMin(S) == CHOOSE x \in S : \A y \in S : x <= y
Abs(x) == IF x < 0 THEN -x ELSE x

RECURSIVE SeqSum(_)
SeqSum(s) == IF s = <<>> THEN 0 ELSE Head(s) + SeqSum(Tail(s))

RECURSIVE SetSum(_, _)
SetSum(S, f) == IF S = {} THEN 0
                ELSE LET x == CHOOSE y \in S : TRUE IN f[x] + SetSum(S \ {x}, f)

\* Python's s[from:to] on a list (0-based, clamped to the list).
Slice(s, from, to) == SubSeq(s, from + 1, Min2(to, Len(s)))

\* Python's list.index(x): position of the first occurrence, 0-based.
IndexOf(s, x) == SetMin({i \in DOMAIN s : s[i] = x}) - 1

\* Python's list.remove(x): drops the first occurrence.
Remove(s, x) == LET i == IndexOf(s, x) + 1
                IN SubSeq(s, 1, i - 1) \o SubSeq(s, i + 1, Len(s))

Rotate(s, r) == SubSeq(s, r + 1, Len(s)) \o SubSeq(s, 1, r)

\* ======================================================================
\* Part 1.  RunningDinnerOptimizer (src/events/optimization.py)
\* ======================================================================

\* --- Team predicates (accounts.Team; the properties themselves are not in
\* --- the model file of the repository, they follow the data model: a team
\* --- has participation_type and has_kitchen).
can_participate_as_host(t) == t.ptype \in {"full", "kitchen_only"}
can_participate_as_guest(t) == t.ptype \in {"full", "guest_only"}
needs_guest_kitchen(t) == ~t.has_kitchen

\* GuestKitchen.can_host_course: an empty list allows every course.
can_host_course(kitchen, course) ==
    kitchen.available_courses = {} \/ course \in kitchen.available_courses

\* load_teams: self.teams, the confirmed teams that can host and be guests,
\* in registration order.  tdb is the table of confirmed registrations.
LoadedTeams(tdb) ==
    SelectSeq([i \in 1..Len(tdb) |-> i],
              LAMBDA i : can_participate_as_host(tdb[i])
                         /\ can_participate_as_guest(tdb[i]))

\* RouteCalculator.calculate_walking_distance with both routing providers
\* unreachable: great-circle distance times a detour factor; here locations
\* lie on a line, 1 km apart.
calculate_walking_distance(p, q) == 10 * Abs(p - q)

\* RouteCalculator.calculate_team_distances: the first direction met in the
\* double loop (lower index first) is computed, the other one mirrored; a
\* falsy result (None or 0.0) becomes the 2.5 km fallback.
TeamPairDistance(tdb, a, b) ==
    IF a = b THEN 0
    ELSE LET lo == Min2(a, b)
             hi == Max2(a, b)
             d == calculate_walking_distance(tdb[lo].pos, tdb[hi].pos)
         IN IF d # 0 THEN d ELSE FallbackError

calculate_team_distances(ts, tdb) ==
    [p \in Range(ts) \X Range(ts) |-> TeamPairDistance(tdb, p[1], p[2])]

\* --- Phase A: simple_running_dinner_solution, SCHRITT 1 -----------------
teams_per_course(n) == n \div 3
extra_teams(n) == n % 3

num_hosts_mutant(n, course_idx) ==
    teams_per_course(n) + (IF course_idx <= extra_teams(n) THEN 1 ELSE 0)

\* course_idx is 0-based as in enumerate(courses).
num_hosts_for_course(n, course_idx) ==
    teams_per_course(n) + (IF course_idx < extra_teams(n) THEN 1 ELSE 0)

RECURSIVE team_idx(_, _)
team_idx(n, course_idx) ==
    IF course_idx = 0 THEN 0
    ELSE team_idx(n, course_idx - 1) + num_hosts_for_course(n, course_idx - 1)

\* host_teams_by_course[course] = self.teams[team_idx:team_idx + num_hosts]
HostTeamsByCourse(ts) ==
    [c \in Courses |->
        Slice(ts, team_idx(Len(ts), c - 1),
                  team_idx(Len(ts), c - 1) + num_hosts_for_course(Len(ts), c - 1))]

\* team_hosting_map[team.id] = course, written course by course (a later
\* course overwrites an earlier one); None when the team was in no slice.
TeamHostingMap(ts) ==
    LET hbc == HostTeamsByCourse(ts)
    IN [t \in Range(ts) |->
          IF \E c \in Courses : t \in Range(hbc[c])
          THEN CHOOSE c \in Courses :
                  /\ t \in Range(hbc[c])
                  /\ \A c2 \in Courses : t \in Range(hbc[c2]) => c2 <= c
          ELSE None]

\* --- Phase B: _optimize_team_diversity ----------------------------------
PairKey(a, b) == {a, b}
Pairs(ts) == {PairKey(p[1], p[2]) : p \in {q \in Range(ts) \X Range(ts) : q[1] # q[2]}}

\* guests_per_host_target + (1 if host_teams.index(host_team) < extra_guests)
target_guest_count(host_teams, n_guests, host) ==
    (n_guests \div Len(host_teams))
    + (IF IndexOf(host_teams, host) < n_guests % Len(host_teams) THEN 1 ELSE 0)

\* diversity_penalty: for every guest already at the host, the recorded
\* meetings with that guest plus the recorded meetings with the host.
diversity_penalty(gph, meetings, guest, host) ==
    SeqSum([i \in 1..Len(gph[host]) |->
              meetings[PairKey(guest, gph[host][i])] * DiversityWeight
              + meetings[PairKey(guest, host)] * DiversityWeight])

total_score(gph, meetings, dist, guest, host) ==
    diversity_penalty(gph, meetings, guest, host) + dist[<<guest, host>>]

\* Hosts of the course that are not yet full, in host order.
OpenHosts(gph, host_teams, n_guests) ==
    SelectSeq(host_teams,
              LAMBDA h : Len(gph[h]) < target_guest_count(host_teams, n_guests, h))

\* best_host: the first open host with the strictly smallest score, or None.
best_host_for(gph, meetings, dist, host_teams, n_guests, guest) ==
    LET open == OpenHosts(gph, host_teams, n_guests)
    IN IF open = <<>> THEN None
       ELSE LET best == SetMin({total_score(gph, meetings, dist, guest, h) :
                                  h \in Range(open)})
                i == SetMin({j \in DOMAIN open :
                               total_score(gph, meetings, dist, guest, open[j]) = best})
            IN open[i]

\* Placing one guest: append to the host's list, then count one meeting with
\* every other guest in the list and one with the host.
PlaceGuest(st, dist, host_teams, n_guests, guest) ==
    LET h == best_host_for(st.gph, st.meetings, dist, host_teams, n_guests, guest)
    IN IF h = None THEN st
       ELSE [gph |-> [st.gph EXCEPT ![h] = Append(@, guest)],
             meetings |->
               [p \in DOMAIN st.meetings |->
                  st.meetings[p]
                  + Cardinality({i \in DOMAIN st.gph[h] :
                                   st.gph[h][i] # guest
                                   /\ p = PairKey(guest, st.gph[h][i])})
                  + (IF p = PairKey(guest, h) THEN 1 ELSE 0)]]

RECURSIVE PlaceGuests(_, _, _, _, _)
PlaceGuests(st, dist, host_teams, n_guests, order) ==
    IF order = <<>> \/ st.gph = <<>> THEN st
    ELSE PlaceGuests(PlaceGuest(st, dist, host_teams, n_guests, Head(order)),
                     dist, host_teams, n_guests, Tail(order))

\* guest_teams of a course: the teams that do not host it, in team order.
GuestTeams(ts, hmap, course) == SelectSeq(ts, LAMBDA t : hmap[t] # course)

\* random.shuffle(guest_teams_copy): the orders considered.
ShuffleOrders(guest_teams) ==
    {Rotate(guest_teams, r) : r \in 0..Min2(MaxRotation, Len(guest_teams) - 1)}

\* One course of the loop "for course in self.courses" with a chosen shuffle.
DiversityCourse(st, dist, ts, hmap, hbc, course, order) ==
    PlaceGuests(st, dist, hbc[course], Len(GuestTeams(ts, hmap, course)), order)

EmptyDiversity(ts) ==
    [gph |-> [t \in Range(ts) |-> <<>>],
     meetings |-> [p \in Pairs(ts) |-> 0]]

\* --- Phase C: route threading (simple_running_dinner_solution, SCHRITT 4)
nearest_host_mutant(dist, host_teams, loc) == loc

\* The first host of the course with the strictly smallest distance from the
\* current location.
nearest_host(dist, host_teams, loc) ==
    LET m == SetMin({dist[<<loc, h>>] : h \in Range(host_teams)})
        i == SetMin({j \in DOMAIN host_teams : dist[<<loc, host_teams[j]>>] = m})
    IN host_teams[i]

route_step_mutant(dist, hbc, hmap, team, loc, course) ==
    IF course = hmap[team]
    THEN [host |-> None,
          distance |-> IF loc # team THEN dist[<<loc, team>>] ELSE 0,
          loc |-> team]
    ELSE LET h == nearest_host(dist, hbc[course], loc)
         IN [host |-> h, distance |-> dist[<<team, h>>], loc |-> h]

\* One course of one team's route: the host visited, the leg and the new
\* location.
route_step(dist, hbc, hmap, team, loc, course) ==
    IF course = hmap[team]
    THEN [host |-> None,
          distance |-> IF loc # team THEN dist[<<loc, team>>] ELSE 0,
          loc |-> team]
    ELSE LET h == nearest_host(dist, hbc[course], loc)
         IN [host |-> h, distance |-> dist[<<loc, h>>], loc |-> h]

TeamRoute(dist, hbc, hmap, team) ==
    LET s1 == route_step(dist, hbc, hmap, team, team, appetizer)
        s2 == route_step(dist, hbc, hmap, team, s1.loc, main_course)
        s3 == route_step(dist, hbc, hmap, team, s2.loc, dessert)
        hosts == [c \in Courses |->
                    IF c = appetizer THEN s1.host
                    ELSE IF c = main_course THEN s2.host ELSE s3.host]
        distances == [c \in Courses |->
                    IF c = appetizer THEN s1.distance
                    ELSE IF c = main_course THEN s2.distance ELSE s3.distance]
    IN [team |-> team,
        hosts |-> hosts,
        course_hosted |-> hmap[team],
        distances |-> distances,
        total_distance |-> distances[appetizer] + distances[main_course]
                           + distances[dessert],
        guest_kitchen_usage |-> [c \in Courses |-> None],
        afterparty_from |-> None,
        afterparty_distance |-> 0]

ThreadRoutes(dist, ts, hbc, hmap) ==
    [t \in Range(ts) |-> TeamRoute(dist, hbc, hmap, t)]

TotalDistance(assignments) ==
    SetSum(DOMAIN assignments, [t \in DOMAIN assignments |-> assignments[t].total_distance])

\* --- create_mip_model / add_constraints / solve --------------------------
\* CONSTRAINT 1 gives every team exactly one host per course, CONSTRAINT 3
\* asks of every team j and every course that the teams visiting j number
\* k - z1 + z2 with binary z1, z2.  The remaining constraints carry slack
\* variables without upper bound (y, z3, t) and exclude nothing.
GroupSizes_mutant == {z1 + z2 : z1 \in {0, 1}, z2 \in {0, 1}}

GroupSizes == {k - z1 + z2 : z1 \in {0, 1}, z2 \in {0, 1}}

MipAssignments(ts) ==
    {x \in [Range(ts) \X Courses -> Range(ts)] :
        \A j \in Range(ts), c \in Courses :
            Cardinality({i \in Range(ts) : x[<<i, c>>] = j}) \in GroupSizes}

\* The loads of one course: a visit matrix with these column sums exists iff
\* they add up to the number of teams.
MipFeasible(ts) ==
    \E load \in [Range(ts) -> GroupSizes] : SetSum(Range(ts), load) = Len(ts)

\* extract_solution for the solved x.
ExtractSolution(ts, dist, x) ==
    [t \in Range(ts) |->
       LET hosts == [c \in Courses |-> x[<<t, c>>]]
           distances == [c \in Courses |-> dist[<<t, x[<<t, c>>]>>]]
       IN [team |-> t,
           hosts |-> hosts,
           course_hosted |->
              IF \E c \in Courses : x[<<t, c>>] = t
              THEN CHOOSE c \in Courses :
                      /\ x[<<t, c>>] = t
                      /\ \A c2 \in Courses : x[<<t, c2>>] = t => c2 <= c
              ELSE None,
           distances |-> distances,
           total_distance |-> distances[appetizer] + distances[main_course]
                              + distances[dessert],
           guest_kitchen_usage |-> [c \in Courses |-> None],
           afterparty_from |-> None,
           afterparty_distance |-> 0]]

\* pulp.value(self.prob.objective) for x with the slack variables at their
\* smallest values: the two travel maxima, P1 and P2 per host load of k-1 and
\* k+1, P3/2 per repeated meeting of a pair.
MipObjective(ts, dist, x) ==
    LET T == Range(ts)
        leg(c) == CHOOSE m \in {dist[<<x[<<i, c>>], x[<<i, c + 1>>]>>] : i \in T} :
                     \A i \in T : dist[<<x[<<i, c>>], x[<<i, c + 1>>]>>] <= m
        load(j, c) == Cardinality({i \in T : x[<<i, c>>] = j})
        z1 == Cardinality({p \in T \X Courses : load(p[1], p[2]) = k - 1})
        z2 == Cardinality({p \in T \X Courses : load(p[1], p[2]) = k + 1})
        met(pr) == Cardinality({c \in Courses :
                      \E a \in pr, b \in pr : a # b /\ x[<<a, c>>] = x[<<b, c>>]})
        z3 == SetSum(Pairs(ts), [pr \in Pairs(ts) |-> Max2(met(pr) - 1, 0)])
    IN leg(appetizer) + leg(main_course) + P1 * z1 + P2 * z2 + (P3 \div 2) * z3

\* --- calculate_distances: kitchens and after-party ----------------------
guest_course == 4         \* course = 'guest'
KitchenBase == 100
KitchenLoc(kitchen) == KitchenBase + kitchen   \* the key f'kitchen_{kitchen.id}'

GuestKitchenDistances(ts, tdb, gks, kdb) ==
    [p \in Range(ts) \X Range(gks) |->
        IF kdb[p[2]].latlng /\ tdb[p[1]].latlng
        THEN calculate_walking_distance(tdb[p[1]].pos, kdb[p[2]].pos)
        ELSE Inf]

\* after_party_distances.get(location, 0) for a team id or a kitchen key.
AfterPartyDistances(ts, tdb, gks, kdb, party) ==
    [loc \in Range(ts) \cup {KitchenLoc(j) : j \in Range(gks)} |->
        IF ~(party.exists /\ party.latlng) THEN 0
        ELSE IF loc \in Range(ts)
             THEN IF tdb[loc].latlng
                  THEN calculate_walking_distance(tdb[loc].pos, party.pos)
                  ELSE 0
             ELSE IF kdb[loc - KitchenBase].latlng
                  THEN calculate_walking_distance(kdb[loc - KitchenBase].pos, party.pos)
                  ELSE 0]

\* --- assign_guest_kitchens ------------------------------------------------
KitchenUsage_mutant(rows, kitchen, course) == 0

\* kitchen.using_teams.filter(course=course, is_active=True).count()
KitchenUsage(rows, kitchen, course) ==
    Cardinality({r \in rows : r.kitchen = kitchen /\ r.course = course})

\* Mandatory pass, one team: the first kitchen allowed for the course, below
\* max_teams, with the strictly smallest distance below infinity; or None.
BestMandatoryKitchen(rows, gks, kdb, gk_dist, team, course) ==
    LET cand == SelectSeq(gks, LAMBDA j :
                    /\ can_host_course(kdb[j], course)
                    /\ KitchenUsage(rows, j, course) < kdb[j].max_teams
                    /\ gk_dist[<<team, j>>] < Inf)
    IN IF cand = <<>> THEN None
       ELSE LET m == SetMin({gk_dist[<<team, cand[i]>>] : i \in DOMAIN cand})
            IN cand[SetMin({i \in DOMAIN cand : gk_dist[<<team, cand[i]>>] = m})]

RECURSIVE MandatoryTeamsLoop(_, _, _, _, _, _)
MandatoryTeamsLoop(st, queue, gks, kdb, gk_dist, course) ==
    IF queue = <<>> \/ ~st.ok THEN st
    ELSE LET best == BestMandatoryKitchen(st.rows, gks, kdb, gk_dist, Head(queue), course)
         IN IF best = None
            THEN [st EXCEPT !.ok = FALSE]
            ELSE MandatoryTeamsLoop(
                    [st EXCEPT !.rows = @ \cup {[team |-> Head(queue),
                                                  kitchen |-> best,
                                                  course |-> course,
                                                  mandatory |-> TRUE]}],
                    Tail(queue), gks, kdb, gk_dist, course)

\* Teams without a kitchen that host the course, in solution order.
MandatoryTeams(asg, ts, tdb, course) ==
    SelectSeq(ts, LAMBDA t : asg[t].course_hosted = course
                             /\ needs_guest_kitchen(tdb[t]))

RECURSIVE MandatoryPass(_, _, _, _, _, _, _, _)
MandatoryPass(st, asg, ts, tdb, gks, kdb, gk_dist, ci) ==
    IF ci > Len(courses) \/ ~st.ok THEN st
    ELSE LET course == courses[ci]
             queue == MandatoryTeams(asg, ts, tdb, course)
             st1 == IF queue = <<>> THEN st
                    ELSE IF \A j \in Range(gks) : ~can_host_course(kdb[j], course)
                         THEN [st EXCEPT !.ok = FALSE]
                         ELSE MandatoryTeamsLoop(st, queue, gks, kdb, gk_dist, course)
         IN MandatoryPass(st1, asg, ts, tdb, gks, kdb, gk_dist, ci + 1)

\* Opportunistic pass, one guest visit: the first kitchen among those open at
\* the start of the course and still below max_teams whose saving against the
\* distance team -> host is the strictly largest and at least 3.0 km.
BestOptionalKitchen(rows, avail, kdb, gk_dist, dist, team, host, course) ==
    LET original_distance == dist[<<team, host>>]
        savings(j) == original_distance - gk_dist[<<team, j>>]
        cand == SelectSeq(avail, LAMBDA j :
                    /\ KitchenUsage(rows, j, course) < kdb[j].max_teams
                    /\ savings(j) > 0
                    /\ savings(j) >= MinSavings)
    IN IF cand = <<>> THEN None
       ELSE LET m == SetMin({0 - savings(cand[i]) : i \in DOMAIN cand})
            IN cand[SetMin({i \in DOMAIN cand : 0 - savings(cand[i]) = m})]

RECURSIVE OptionalTeamsLoop(_, _, _, _, _, _, _)
OptionalTeamsLoop(st, queue, avail, kdb, gk_dist, dist, course) ==
    IF queue = <<>> THEN st
    ELSE LET team == Head(queue)
             a == st.asg[team]
             host == a.hosts[course]
             best == IF a.course_hosted = course \/ host = None THEN None
                     ELSE BestOptionalKitchen(st.rows, avail, kdb, gk_dist, dist,
                                              team, host, course)
             st1 == IF best = None THEN st
                    ELSE [st EXCEPT
                            !.rows = @ \cup {[team |-> team, kitchen |-> best,
                                              course |-> course, mandatory |-> FALSE]},
                            !.asg[team].guest_kitchen_usage[course] = best]
         IN OptionalTeamsLoop(st1, Tail(queue), avail, kdb, gk_dist, dist, course)

RECURSIVE OptionalPass(_, _, _, _, _, _, _)
OptionalPass(st, ts, gks, kdb, gk_dist, dist, ci) ==
    IF ci > Len(courses) THEN st
    ELSE LET course == courses[ci]
             avail == SelectSeq(gks, LAMBDA j :
                         /\ can_host_course(kdb[j], course)
                         /\ KitchenUsage(st.rows, j, course) < kdb[j].max_teams)
             st1 == IF avail = <<>> THEN st
                    ELSE OptionalTeamsLoop(st, ts, avail, kdb, gk_dist, dist, course)
         IN OptionalPass(st1, ts, gks, kdb, gk_dist, dist, ci + 1)

\* The whole method: delete the event's rows of these teams, mandatory pass
\* (may raise: ok = FALSE, rows written so far stay), opportunistic pass.
assign_guest_kitchens(asg, rows, ts, tdb, gks, kdb, gk_dist, dist) ==
    LET kept == {r \in rows : ~(r.team \in Range(ts))}
        m == MandatoryPass([ok |-> TRUE, rows |-> kept, asg |-> asg],
                           asg, ts, tdb, gks, kdb, gk_dist, 1)
    IN IF ~m.ok THEN m
       ELSE OptionalPass(m, ts, gks, kdb, gk_dist, dist, 1)

\* --- improve_guest_distribution -------------------------------------------
\* total_guests_for_course: teams with an assignment that does not host the
\* course and has a host for it.
total_guests_for_course(asg, course) ==
    Cardinality({t \in DOMAIN asg :
                   asg[t].course_hosted # course /\ asg[t].hosts[course] # None})

\* current_guest_count > ideal_guests + 0.5 with ideal = guests / hosts.
IsOverloaded(count, n_guests, n_hosts) == 2 * n_hosts * count > 2 * n_guests + n_hosts
IsUnderloaded_below_ideal(count, n_guests, n_hosts) == n_hosts * count < n_guests
IsUnderloaded_mutant(count, n_guests, n_hosts) == count < n_guests

\* current_guest_count < ideal_guests - 0.5
IsUnderloaded(count, n_guests, n_hosts) == 2 * n_hosts * count < 2 * n_guests - n_hosts

overloaded_hosts(gph, asg, host_teams, course) ==
    SelectSeq(host_teams, LAMBDA h :
        IsOverloaded(Len(gph[h]), total_guests_for_course(asg, course), Len(host_teams)))

underloaded_hosts(gph, asg, host_teams, course) ==
    SelectSeq(host_teams, LAMBDA h :
        /\ ~IsOverloaded(Len(gph[h]), total_guests_for_course(asg, course), Len(host_teams))
        /\ IsUnderloaded(Len(gph[h]), total_guests_for_course(asg, course), Len(host_teams)))

\* The guest of the overloaded host whose distance drops most by going to the
\* underloaded host (first such guest; None when no distance drops).
best_guest_to_move(gph, dist, over, under) ==
    LET guests == gph[over]
        imp(g) == dist[<<g, over>>] - dist[<<g, under>>]
        pos == {i \in DOMAIN guests : imp(guests[i]) > 0}
    IN IF pos = {} THEN None
       ELSE LET m == SetMin({0 - imp(guests[i]) : i \in pos})
            IN guests[SetMin({i \in pos : 0 - imp(guests[i]) = m})]

\* Applying a move: the guest changes lists; its assignment gets the new host
\* and, as the leg, new_distance as left by the loop over current_guests,
\* that is the distance of the last guest in the list to the new host.
apply_move(st, dist, over, under, guest, course) ==
    LET new_distance == dist[<<st.gph[over][Len(st.gph[over])], under>>]
        old_distance == st.asg[guest].distances[course]
    IN [gph |-> [st.gph EXCEPT ![over] = Remove(@, guest),
                               ![under] = Append(@, guest)],
        asg |-> [st.asg EXCEPT ![guest].hosts[course] = under,
                               ![guest].distances[course] = new_distance,
                               ![guest].total_distance = @ + new_distance - old_distance],
        found |-> TRUE,
        moves |-> st.moves + 1]

RECURSIVE UnderLoop(_, _, _, _, _)
UnderLoop(st, dist, over, unders, course) ==
    IF unders = <<>> THEN st
    ELSE LET g == best_guest_to_move(st.gph, dist, over, Head(unders))
         IN IF g # None
               /\ dist[<<g, over>>] - dist[<<g, Head(unders)>>] > MinImprovement
            THEN apply_move(st, dist, over, Head(unders), g, course)
            ELSE UnderLoop(st, dist, over, Tail(unders), course)

RECURSIVE OverLoop(_, _, _, _, _)
OverLoop(st, dist, overs, unders, course) ==
    IF overs = <<>> THEN st
    ELSE LET st1 == UnderLoop(st, dist, Head(overs), unders, course)
         IN IF st1.found THEN st1
            ELSE OverLoop(st1, dist, Tail(overs), unders, course)

RECURSIVE CoursesLoop(_, _, _, _)
CoursesLoop(st, dist, hbc, ci) ==
    IF ci > Len(courses) THEN st
    ELSE LET course == courses[ci]
             hosts_in_course == hbc[course]
             st1 == IF Len(hosts_in_course) < 2 THEN st
                    ELSE OverLoop(st, dist,
                            overloaded_hosts(st.gph, st.asg, hosts_in_course, course),
                            underloaded_hosts(st.gph, st.asg, hosts_in_course, course),
                            course)
         IN CoursesLoop(st1, dist, hbc, ci + 1)

RECURSIVE IterationsLoop(_, _, _, _)
IterationsLoop(st, dist, hbc, left) ==
    IF left = 0 THEN st
    ELSE LET st1 == CoursesLoop([st EXCEPT !.found = FALSE], dist, hbc, 1)
         IN IF ~st1.found THEN st1
            ELSE IterationsLoop(st1, dist, hbc, left - 1)

\* The iterations of improve_guest_distribution: the assignments, the guest
\* lists and the number of moves applied.
improve_guest_distribution(asg, gph, dist, hbc, max_iterations) ==
    IterationsLoop([asg |-> asg, gph |-> gph, found |-> FALSE, moves |-> 0],
                   dist, hbc, max_iterations)

\* --- add_afterparty_routes --------------------------------------------------
last_location_id(a) ==
    IF a.guest_kitchen_usage[dessert] # None
    THEN KitchenLoc(a.guest_kitchen_usage[dessert])
    ELSE IF a.course_hosted = dessert THEN a.team
    ELSE IF a.hosts[dessert] # None THEN a.hosts[dessert]
    ELSE a.team

afterparty_objective_mutant(asg, ap_dist, objective) == objective

\* solution['objective_value'] after the routes were added.
afterparty_objective(asg, ap_dist, objective) ==
    objective + SetSum(DOMAIN asg,
                       [t \in DOMAIN asg |-> ap_dist[last_location_id(asg[t])]])

add_afterparty_routes(asg, ap_dist) ==
    [t \in DOMAIN asg |->
        LET d == ap_dist[last_location_id(asg[t])]
        IN IF d > 0
           THEN [asg[t] EXCEPT !.afterparty_from = last_location_id(asg[t]),
                               !.afterparty_distance = d,
                               !.total_distance = @ + d]
           ELSE asg[t]]

afterparty_teams_count(asg, ap_dist) ==
    Cardinality({t \in DOMAIN asg : ap_dist[last_location_id(asg[t])] > 0})

\* --- _update_progress -------------------------------------------------------
\* Steps are kept doubled (step 3.5 is 7); the log keeps the doubled steps.
UpdateProgress_mutant(c, step2, total_steps) ==
    [progress |-> [step2 |-> step2,
                   total_steps |-> total_steps,
                   percentage |-> (step2 * 100) \div (2 * total_steps),
                   status |-> IF step2 < 2 * total_steps THEN "running"
                              ELSE "completed"],
     logs |-> LET l == Append(c.logs, step2)
              IN IF Len(l) > LogLimit THEN SubSeq(l, 1, LogLimit) ELSE l]

UpdateProgress(c, step2, total_steps) ==
    [progress |-> [step2 |-> step2,
                   total_steps |-> total_steps,
                   percentage |-> (step2 * 100) \div (2 * total_steps),
                   status |-> IF step2 < 2 * total_steps THEN "running"
                              ELSE "completed"],
     logs |-> LET l == Append(c.logs, step2)
              IN IF Len(l) > LogLimit THEN SubSeq(l, Len(l) - LogLimit + 1, Len(l))
                 ELSE l]

\* _init_progress
InitProgress ==
    [progress |-> [step2 |-> 0, total_steps |-> TotalSteps, percentage |-> 0,
                   status |-> "running"],
     logs |-> <<>>]

\* ----------------------------------------------------------------------
\* State
\* ----------------------------------------------------------------------
VARIABLES
    \* the event's data (database)
    team_db,            \* confirmed registrations, in order: the teams
    kitchen_db,         \* the event's active guest kitchens
    after_party_db,     \* the event's after-party location, if any
    kitchen_rows,       \* TeamGuestKitchenAssignment rows
    \* the cache
    cache,              \* optimization_progress_<id> and optimization_log_<id>
    \* one RunningDinnerOptimizer running optimize()
    pc,
    teams,              \* self.teams
    distances,          \* self.distances
    guest_kitchen_distances,
    after_party_distances,
    host_teams_by_course,
    team_hosting_map,
    guests_per_host,    \* solution['guests_per_host']
    team_meetings,      \* solution['team_meetings']
    assignments,        \* solution['assignments'], by team
    objective_value,    \* solution['objective_value']
    afterparty_stats,   \* solution['afterparty_stats']['teams_count'], 0 if absent
    moves,              \* moves applied by improve_guest_distribution
    \* the event's rows and the requests handled by start_optimization
    event_status,       \* Event.status
    runs,               \* OptimizationRun rows of the event, by id
    team_assignments,   \* TeamAssignment rows
    next_run_id,        \* next primary key of OptimizationRun
    req,                \* the start_optimization requests in flight
    \* one RouteCalculator and the route cache
    api_key,            \* settings.OPENROUTE_API_KEY is set
    route_cache,        \* cache entries route_<start>_<end>
    returned,           \* per route key, the value the latest call returned
    last_call,          \* the latest call of calculate_walking_distance
    n_calls,            \* calls of calculate_walking_distance made directly
    td,                 \* calculate_team_distances in progress
    \* the cache keys of the progress display and a reader of the endpoint
    live_keys,          \* which of the progress and the log key exist
    written,            \* every _update_progress call of the writer, in order
    expired,            \* a key has timed out since the writer started
    response,           \* what get_optimization_progress answered last
    \* the cache entries of EventCacheManager and OptimizationCacheManager
    kv,                 \* per event and key: "absent", "none" (None) or "data"
    changed             \* the event whose save/delete signal ran last, 0 if none

optVars == <<team_db, kitchen_db, after_party_db, kitchen_rows, cache, pc, teams,
             distances, guest_kitchen_distances, after_party_distances,
             host_teams_by_course, team_hosting_map, guests_per_host,
             team_meetings, assignments, objective_value, afterparty_stats, moves>>

runVars == <<event_status, runs, team_assignments, next_run_id, req>>

routeVars == <<api_key, route_cache, returned, last_call, n_calls, td>>

logVars == <<live_keys, written, expired, response>>

cacheVars == <<kv, changed>>

svcVars == <<routeVars, logVars, cacheVars>>

\* --- the route cache ------------------------------------------------------
Missing == 0 - 1          \* cache.get finds no entry / no value yet

Positions == {i * Spacing : i \in 0..MaxCoord}

Coords == Positions       \* coordinates, rounded to four decimals as in the key

\* cache_key = f"route_{start_lat:.4f}_{start_lng:.4f}_{end_lat:.4f}_{end_lng:.4f}"
RouteKeys == Coords \X Coords

NoCall == [key |-> <<0, 0>>, result |-> Missing, requests |-> 0, oracle |-> FALSE]

IdleTd == [pc |-> "idle", coords |-> <<>>, i |-> 0, j |-> 0,
           distances |-> <<>>, calls |-> <<>>]

\* No RouteCalculator is at work and the route cache is empty.
RouteIdle ==
    /\ api_key = FALSE
    /\ route_cache = [key \in RouteKeys |-> Missing]
    /\ returned = [key \in RouteKeys |-> Missing]
    /\ last_call = NoCall
    /\ n_calls = 0
    /\ td = IdleTd

NoResponse == [code |-> 0, status |-> "", logs |-> <<>>]

\* The keys as an optimizer's __init__ leaves them; nobody reads the endpoint.
LogIdle ==
    /\ live_keys = {"progress", "log"}
    /\ written = <<>>
    /\ expired = FALSE
    /\ response = NoResponse

MaxEvents == 2

EventIds == 1..MaxEvents

\* generate_cache_key('event', 'summary' | 'teams' | 'detail', event_id),
\* generate_cache_key('opt', 'results' | 'latest', event_id)
CacheKeys == {"evt:summary", "evt:teams", "evt:detail", "opt:results", "opt:latest"}

\* Nothing is cached.
CacheIdle ==
    /\ kv = [e \in EventIds |-> [key \in CacheKeys |-> "absent"]]
    /\ changed = 0

SvcIdle == RouteIdle /\ LogIdle /\ CacheIdle

FullTeam(p) == [ptype |-> "full", has_kitchen |-> TRUE, pos |-> p, latlng |-> TRUE]

NoParty == [exists |-> FALSE, latlng |-> FALSE, pos |-> 0]

\* Events without guest kitchens and after-party, every team participating
\* fully and owning a kitchen.
CoreEvents ==
    UNION {[1..n -> {FullTeam(p) : p \in Positions}] : n \in MinTeams..MaxTeams}

\* Events for the kitchen and after-party stages: at most one team without a
\* kitchen, the last registered team possibly a pure guest.
KitchenTeams ==
    UNION {{[i \in 1..n |->
               [ptype |-> IF i = g THEN "guest_only" ELSE "full",
                has_kitchen |-> i # nk,
                pos |-> place[i],
                latlng |-> TRUE]] :
             place \in [1..n -> Positions], g \in {0, n}, nk \in 0..n} :
           n \in MinTeams..MaxKitchenTeams}

Kitchens ==
    [pos : Positions, latlng : BOOLEAN, max_teams : 1..MaxCapacity,
     available_courses : {{}, {dessert}}]

KitchenTables == UNION {[1..j -> Kitchens] : j \in 0..MaxKitchens}

\* No after-party, one without coordinates (latitude and longitude are
\* nullable), or one with coordinates at any position.
Parties ==
    {NoParty, [exists |-> TRUE, latlng |-> FALSE, pos |-> 0]}
    \cup {[exists |-> TRUE, latlng |-> TRUE, pos |-> p] : p \in Positions}

\* TeamGuestKitchenAssignment rows an earlier run left behind: none, or one of
\* the last registered team at the first kitchen for dessert (within max_teams,
\* as the allocator writes them).
StaleRows(tdb, kdb) ==
    {{}} \cup {{[team |-> Len(tdb), kitchen |-> 1, course |-> dessert,
                 mandatory |-> FALSE]} : j \in {1} \cap DOMAIN kdb}

OptimizerInit ==
    /\ cache = InitProgress
    /\ pc = "start"
    /\ teams = <<>>
    /\ distances = <<>>
    /\ guest_kitchen_distances = <<>>
    /\ after_party_distances = <<>>
    /\ host_teams_by_course = <<>>
    /\ team_hosting_map = <<>>
    /\ guests_per_host = <<>>
    /\ team_meetings = <<>>
    /\ assignments = <<>>
    /\ objective_value = 0
    /\ afterparty_stats = 0
    /\ moves = 0

EventInit ==
    /\ \/ /\ team_db \in CoreEvents
          /\ kitchen_db = <<>>
          /\ after_party_db = NoParty
       \/ /\ team_db \in KitchenTeams
          /\ kitchen_db \in KitchenTables
          /\ after_party_db \in Parties
    /\ kitchen_rows \in StaleRows(team_db, kitchen_db)

GuestKitchens == [j \in 1..Len(kitchen_db) |-> j]     \* self.guest_kitchens

\* ----------------------------------------------------------------------
\* optimize(), step by step.  An exception anywhere ends it in "raised".
\* ----------------------------------------------------------------------
LoadTeams ==
    /\ pc = "start"
    /\ UNCHANGED <<runVars, svcVars>>
    /\ teams' = LoadedTeams(team_db)
    /\ pc' = IF Len(LoadedTeams(team_db)) < MinTeams THEN "raised" ELSE "loaded"
    /\ UNCHANGED <<team_db, kitchen_db, after_party_db, kitchen_rows, cache,
                   distances, guest_kitchen_distances, after_party_distances,
                   host_teams_by_course, team_hosting_map, guests_per_host,
                   team_meetings, assignments, objective_value, afterparty_stats,
                   moves>>

CalculateDistances ==
    /\ pc = "loaded"
    /\ UNCHANGED <<runVars, svcVars>>
    /\ cache' = UpdateProgress(cache, 2, TotalSteps)
    /\ distances' = calculate_team_distances(teams, team_db)
    /\ guest_kitchen_distances' =
          GuestKitchenDistances(teams, team_db, GuestKitchens, kitchen_db)
    /\ after_party_distances' =
          AfterPartyDistances(teams, team_db, GuestKitchens, kitchen_db, after_party_db)
    /\ pc' = "distances"
    /\ UNCHANGED <<team_db, kitchen_db, after_party_db, kitchen_rows, teams,
                   host_teams_by_course, team_hosting_map, guests_per_host,
                   team_meetings, assignments, objective_value, afterparty_stats,
                   moves>>

\* create_mip_model, add_constraints, solve, extract_solution: with a solved
\* model optimize() returns the extracted solution, otherwise it goes on to
\* the heuristic.
SolveMip ==
    /\ pc = "distances"
    /\ UNCHANGED <<runVars, svcVars>>
    /\ IF Len(teams) <= MipTeamLimit /\ MipFeasible(teams)
       THEN \E x \in MipAssignments(teams) :
               /\ assignments' = ExtractSolution(teams, distances, x)
               /\ objective_value' = MipObjective(teams, distances, x)
               /\ pc' = "returned"
       ELSE /\ pc' = "heuristic"
            /\ UNCHANGED <<assignments, objective_value>>
    /\ UNCHANGED <<team_db, kitchen_db, after_party_db, kitchen_rows, cache, teams,
                   distances, guest_kitchen_distances, after_party_distances,
                   host_teams_by_course, team_hosting_map, guests_per_host,
                   team_meetings, afterparty_stats, moves>>

\* simple_running_dinner_solution, SCHRITT 1
AssignHosts ==
    /\ pc = "heuristic"
    /\ UNCHANGED <<runVars, svcVars>>
    /\ cache' = UpdateProgress(cache, 4, TotalSteps)
    /\ host_teams_by_course' = HostTeamsByCourse(teams)
    /\ team_hosting_map' = TeamHostingMap(teams)
    /\ pc' = "hosts"
    /\ UNCHANGED <<team_db, kitchen_db, after_party_db, kitchen_rows, teams,
                   distances, guest_kitchen_distances, after_party_distances,
                   guests_per_host, team_meetings, assignments, objective_value,
                   afterparty_stats, moves>>

\* _optimize_team_diversity: the three courses in order, each with its own
\* shuffle.  A course without hosts divides by zero, a team without hosting
\* course is a KeyError.
OptimizeTeamDiversity ==
    /\ pc = "hosts"
    /\ UNCHANGED <<runVars, svcVars>>
    /\ cache' = UpdateProgress(cache, 6, TotalSteps)
    /\ IF \/ \E c \in Courses : host_teams_by_course[c] = <<>>
          \/ \E t \in Range(teams) : team_hosting_map[t] = None
       THEN /\ pc' = "raised"
            /\ UNCHANGED <<guests_per_host, team_meetings>>
       ELSE \E o1 \in ShuffleOrders(GuestTeams(teams, team_hosting_map, appetizer)),
               o2 \in ShuffleOrders(GuestTeams(teams, team_hosting_map, main_course)),
               o3 \in ShuffleOrders(GuestTeams(teams, team_hosting_map, dessert)) :
               LET s1 == DiversityCourse(EmptyDiversity(teams), distances, teams,
                            team_hosting_map, host_teams_by_course, appetizer, o1)
                   s2 == DiversityCourse(s1, distances, teams,
                            team_hosting_map, host_teams_by_course, main_course, o2)
                   s3 == DiversityCourse(s2, distances, teams,
                            team_hosting_map, host_teams_by_course, dessert, o3)
               IN /\ guests_per_host' = s3.gph
                  /\ team_meetings' = s3.meetings
                  /\ pc' = "diversity"
    /\ UNCHANGED <<team_db, kitchen_db, after_party_db, kitchen_rows, teams,
                   distances, guest_kitchen_distances, after_party_distances,
                   host_teams_by_course, team_hosting_map, assignments,
                   objective_value, afterparty_stats, moves>>

\* simple_running_dinner_solution, SCHRITT 4 and 3: routes and totals.
ThreadTeamRoutes ==
    /\ pc = "diversity"
    /\ UNCHANGED <<runVars, svcVars>>
    /\ assignments' = ThreadRoutes(distances, teams, host_teams_by_course,
                                   team_hosting_map)
    /\ objective_value' = TotalDistance(assignments')
    /\ pc' = "routed"
    /\ UNCHANGED <<team_db, kitchen_db, after_party_db, kitchen_rows, cache, teams,
                   distances, guest_kitchen_distances, after_party_distances,
                   host_teams_by_course, team_hosting_map, guests_per_host,
                   team_meetings, afterparty_stats, moves>>

\* "if self.guest_kitchens: ... solution = self.assign_guest_kitchens(solution)"
AssignGuestKitchens ==
    /\ pc = "routed"
    /\ UNCHANGED <<runVars, svcVars>>
    /\ IF kitchen_db = <<>>
       THEN /\ pc' = "kitchens"
            /\ UNCHANGED <<cache, kitchen_rows, assignments>>
       ELSE LET r == assign_guest_kitchens(assignments, kitchen_rows, teams, team_db,
                        GuestKitchens, kitchen_db, guest_kitchen_distances, distances)
            IN /\ cache' = UpdateProgress(UpdateProgress(cache, 7, TotalSteps),
                                          8, TotalSteps)
               /\ kitchen_rows' = r.rows
               /\ assignments' = r.asg
               /\ pc' = IF r.ok THEN "kitchens" ELSE "raised"
    /\ UNCHANGED <<team_db, kitchen_db, after_party_db, teams,
                   distances, guest_kitchen_distances, after_party_distances,
                   host_teams_by_course, team_hosting_map, guests_per_host,
                   team_meetings, objective_value, afterparty_stats, moves>>

\* improve_guest_distribution up to the new objective value.
ImproveGuestDistribution ==
    /\ pc = "kitchens"
    /\ UNCHANGED <<runVars, svcVars>>
    /\ cache' = UpdateProgress(cache, 8, TotalSteps)
    /\ LET r == improve_guest_distribution(assignments, guests_per_host, distances,
                    host_teams_by_course, DefaultMaxIterations)
       IN /\ assignments' = r.asg
          /\ guests_per_host' = r.gph
          /\ moves' = r.moves
          /\ objective_value' = TotalDistance(r.asg)
    /\ pc' = "improved"
    /\ UNCHANGED <<team_db, kitchen_db, after_party_db, kitchen_rows, teams,
                   distances, guest_kitchen_distances, after_party_distances,
                   host_teams_by_course, team_hosting_map, team_meetings,
                   afterparty_stats>>

\* "if self.after_party: add_afterparty_routes", the final progress update
\* and the return.
AddAfterpartyRoutes ==
    /\ pc = "improved"
    /\ UNCHANGED <<runVars, svcVars>>
    /\ IF after_party_db.exists
       THEN /\ assignments' = add_afterparty_routes(assignments, after_party_distances)
            /\ objective_value' = afterparty_objective(assignments,
                                      after_party_distances, objective_value)
            /\ afterparty_stats' = afterparty_teams_count(assignments,
                                      after_party_distances)
       ELSE UNCHANGED <<assignments, objective_value, afterparty_stats>>
    /\ cache' = UpdateProgress(cache, 10, TotalSteps)
    /\ pc' = "returned"
    /\ UNCHANGED <<team_db, kitchen_db, after_party_db, kitchen_rows, teams,
                   distances, guest_kitchen_distances, after_party_distances,
                   host_teams_by_course, team_hosting_map, guests_per_host,
                   team_meetings, moves>>


MaxRequests == 2
Requests == 1..MaxRequests

\* A request that has not entered start_optimization yet.
IdleRequest ==
    [pc |-> "idle", run |-> None, solution |-> <<>>, todo |-> <<>>,
     failed |-> FALSE,
     before |-> [status |-> "", runs |-> {}, assignments |-> {}]]

\* No request is being handled.
NoRequests ==
    /\ event_status = "registration_closed"
    /\ runs = <<>>
    /\ team_assignments = {}
    /\ next_run_id = 1
    /\ req = [r \in Requests |-> IdleRequest]

vars == <<optVars, runVars, svcVars>>

Init == EventInit /\ OptimizerInit /\ NoRequests /\ SvcIdle

Next ==
    \/ LoadTeams
    \/ CalculateDistances
    \/ SolveMip
    \/ AssignHosts
    \/ OptimizeTeamDiversity
    \/ ThreadTeamRoutes
    \/ AssignGuestKitchens
    \/ ImproveGuestDistribution
    \/ AddAfterpartyRoutes

Spec == Init /\ [][Next]_vars

\* ----------------------------------------------------------------------
\* Properties of optimize()
\* ----------------------------------------------------------------------
Solved == pc \in {"routed", "kitchens", "improved", "returned"}

\* C1: once the heuristic has assigned hosts, course i of (appetizer,
\* main_course, dessert) has floor(n/3) hosts plus one iff i < n mod 3, the
\* three groups are disjoint and cover the teams, and every team hosts exactly
\* one course.
C1_HostPartition ==
    host_teams_by_course # <<>> =>
        LET n == Len(teams)
        IN /\ n >= MinTeams
           /\ \A c \in Courses :
                 /\ Len(host_teams_by_course[c])
                       = (n \div 3) + (IF c - 1 < n % 3 THEN 1 ELSE 0)
                 /\ Cardinality(Range(host_teams_by_course[c]))
                       = Len(host_teams_by_course[c])
           /\ \A t \in Range(teams) :
                 /\ Cardinality({c \in Courses :
                                   t \in Range(host_teams_by_course[c])}) = 1
                 /\ team_hosting_map[t] \in Courses
                 /\ t \in Range(host_teams_by_course[team_hosting_map[t]])

C1_Witness ==
    /\ pc = "hosts"
    /\ Len(teams) % 3 = 1
    /\ Len(host_teams_by_course[appetizer]) = Len(host_teams_by_course[dessert]) + 1

\* C2: in every assignment of a solution, hosts[c] is null exactly for the
\* course the team hosts, and otherwise is a team that hosts c.
C2_HostsOfCourse ==
    assignments # <<>> =>
        \A t \in DOMAIN assignments : \A c \in Courses :
            /\ (assignments[t].hosts[c] = None) <=> (assignments[t].course_hosted = c)
            /\ assignments[t].hosts[c] # None =>
                  /\ assignments[t].hosts[c] \in DOMAIN assignments
                  /\ assignments[assignments[t].hosts[c]].course_hosted = c

C2_Witness ==
    /\ pc = "returned"
    /\ Len(teams) <= MipTeamLimit
    /\ \E t \in DOMAIN assignments : assignments[t].hosts[dessert] # None

\* Teams present at host h for course c: h and the teams whose hosts[c] is h.
Present(h, c) ==
    1 + Cardinality({t \in DOMAIN assignments : assignments[t].hosts[c] = h})

\* C3: in the returned assignments every host of a course has 2, 3 or 4 teams
\* present, and exactly 3 when the guests of the course divide evenly among
\* its hosts.
C3_GroupSize ==
    pc = "returned" =>
        \A c \in Courses : \A h \in Range(host_teams_by_course[c]) :
            /\ Present(h, c) \in {k - 1, k, k + 1}
            /\ (Len(teams) - Len(host_teams_by_course[c]))
                  % Len(host_teams_by_course[c]) = 0
               => Present(h, c) = k

\* C4: every team's total_distance is the sum of its three course legs and
\* its after-party leg, and objective_value is the sum of the totals.
C4_Accounting ==
    Solved =>
        /\ \A t \in DOMAIN assignments :
              assignments[t].total_distance
                 = assignments[t].distances[appetizer]
                   + assignments[t].distances[main_course]
                   + assignments[t].distances[dessert]
                   + assignments[t].afterparty_distance
        /\ objective_value = TotalDistance(assignments)

C4_Witness ==
    /\ pc = "returned"
    /\ \E t \in DOMAIN assignments : assignments[t].afterparty_distance > 0
    /\ \E t \in DOMAIN assignments : assignments[t].distances[main_course] > 0

\* Where a team is before course c: at home before the appetizer, afterwards
\* at the home of the previous course's host (its own home if it hosted).
PrevLocation(a, c) ==
    IF c = appetizer \/ a.hosts[c - 1] = None THEN a.team ELSE a.hosts[c - 1]

\* C5: for every team and every course it does not host, the stored leg is
\* the matrix distance from the team's previous location to the host's home.
C5_RouteThreading ==
    Solved =>
        \A t \in DOMAIN assignments : \A c \in Courses :
            assignments[t].course_hosted # c =>
                assignments[t].distances[c]
                   = distances[<<PrevLocation(assignments[t], c),
                                 assignments[t].hosts[c]>>]

C5_Witness ==
    /\ pc = "returned"
    /\ \E t \in DOMAIN assignments :
          /\ assignments[t].course_hosted = dessert
          /\ distances[<<assignments[t].hosts[appetizer],
                         assignments[t].hosts[main_course]>>]
                # distances[<<t, assignments[t].hosts[main_course]>>]

\* C10: when optimize() gets past the kitchen stage, every team that needs a
\* guest kitchen has a kitchen row for the course it hosts, at a kitchen that
\* allows the course; a run in which no such kitchen exists fails.
C10_MandatoryKitchen ==
    pc \in {"kitchens", "improved", "returned"} =>
        \A t \in Range(teams) :
            needs_guest_kitchen(team_db[t]) =>
                \E row \in kitchen_rows :
                    /\ row.team = t
                    /\ row.course = team_hosting_map[t]
                    /\ can_host_course(kitchen_db[row.kitchen], row.course)

\* C11: after the kitchen allocator has run (both passes, or the mandatory pass
\* up to the point where it raised), no guest kitchen has more rows for one
\* course than its max_teams.
C11_KitchenCapacity ==
    pc \in {"kitchens", "improved", "returned", "raised"} =>
        \A j \in DOMAIN kitchen_db : \A c \in Courses :
            Cardinality({row \in kitchen_rows :
                            row.kitchen = j /\ row.course = c})
               <= kitchen_db[j].max_teams

\* The allocator has filled a kitchen for a course and a further guest of that
\* course, who would save at least the threshold there, was left without it.
C11_Witness ==
    /\ pc = "kitchens"
    /\ \E j \in DOMAIN kitchen_db : \E c \in Courses :
          /\ can_host_course(kitchen_db[j], c)
          /\ Cardinality({row \in kitchen_rows :
                             row.kitchen = j /\ row.course = c /\ row.team \in Range(teams)})
                = kitchen_db[j].max_teams
          /\ \E t \in Range(teams) :
                /\ assignments[t].hosts[c] # None
                /\ ~\E row \in kitchen_rows : row.team = t /\ row.course = c
                /\ distances[<<t, assignments[t].hosts[c]>>]
                      - guest_kitchen_distances[<<t, j>>] >= MinSavings

\* C12: with at most six loaded teams the constraint system of add_constraints
\* is feasible and optimize() returns the extracted MILP solution instead of
\* going on to the heuristic; with more teams the heuristic produces the result.
C12_MipPathTaken ==
    /\ Len(teams) <= MipTeamLimit => MipFeasible(teams)
    /\ pc = "heuristic" => Len(teams) > MipTeamLimit
    /\ pc = "returned" /\ Len(teams) > MipTeamLimit => host_teams_by_course # <<>>

\* C13: optimize() returns a solution only from the end of the pipeline: the
\* step that returns is the one after local improvement, the kitchen stage
\* (progress step 3.5, written only there) has run if the event has guest
\* kitchens, and the returned assignments are those of add_afterparty_routes
\* if the event has an after-party.
C13_PipelineOrder ==
    [][pc' = "returned" =>
          /\ pc = "improved"
          /\ kitchen_db # <<>> => 7 \in Range(cache.logs)
          /\ after_party_db.exists =>
                assignments' = add_afterparty_routes(assignments, after_party_distances)]_vars

\* A returned solution with both stages visibly applied.
C13_Witness ==
    /\ pc = "returned"
    /\ kitchen_db # <<>> /\ kitchen_rows # {}
    /\ after_party_db.exists
    /\ \E t \in DOMAIN assignments : assignments[t].afterparty_from # None

\* The location the after-party leg of team t is to start from: the kitchen of
\* its dessert row if it has one, else its home if it hosts dessert, else the
\* home of its dessert host.
ExpectedLastLocation(t) ==
    IF \E row \in kitchen_rows : row.team = t /\ row.course = dessert
    THEN KitchenLoc((CHOOSE row \in kitchen_rows :
                        row.team = t /\ row.course = dessert).kitchen)
    ELSE IF assignments[t].course_hosted = dessert THEN t
    ELSE assignments[t].hosts[dessert]

\* C14: in a returned solution of an event with an after-party, every team's
\* after-party leg is the one from its dessert kitchen (mandatory or
\* opportunistic) if it has one, else from its own home if it hosts dessert,
\* else from the home of its dessert host.
C14_LastLocation ==
    pc = "returned" /\ after_party_db.exists =>
        \A t \in DOMAIN assignments :
            LET e == ExpectedLastLocation(t)
                d == after_party_distances[e]
            IN IF d > 0
               THEN /\ assignments[t].afterparty_from = e
                    /\ assignments[t].afterparty_distance = d
               ELSE assignments[t].afterparty_from = None

\* C15: when the event has an after-party, the step that adds the after-party
\* routes gives every team a leg of positive length, counts every team in
\* afterparty_stats, raises each team's total_distance by its leg and the
\* objective value by the sum of the legs.
C15_AfterpartyExtension ==
    [][pc = "improved" /\ pc' = "returned" /\ after_party_db.exists =>
          /\ \A t \in DOMAIN assignments :
                /\ assignments'[t].afterparty_distance > 0
                /\ assignments'[t].total_distance =
                      assignments[t].total_distance + assignments'[t].afterparty_distance
          /\ afterparty_stats' = Len(teams)
          /\ objective_value' = objective_value +
                SetSum(DOMAIN assignments,
                       [t \in DOMAIN assignments |-> assignments'[t].afterparty_distance])]_vars

\* ----------------------------------------------------------------------
\* optimize() as one call: every result it can have for the event's data.
\* ----------------------------------------------------------------------
KitchenIds(kdb) == [j \in 1..Len(kdb) |-> j]

\* "raise ValueError(f'Optimierung fehlgeschlagen: ...')"
Raised(c, rows) ==
    [ok |-> FALSE, assignments |-> <<>>, objective_value |-> 0,
     rows |-> rows, cache |-> c, teams |-> <<>>]

\* simple_running_dinner_solution for the chosen shuffles.
HeuristicResult(ts, tdb, kdb, party, rows, c, dist, o1, o2, o3) ==
    LET hbc == HostTeamsByCourse(ts)
        hmap == TeamHostingMap(ts)
        gks == KitchenIds(kdb)
        c2 == UpdateProgress(UpdateProgress(c, 4, TotalSteps), 6, TotalSteps)
        s1 == DiversityCourse(EmptyDiversity(ts), dist, ts, hmap, hbc, appetizer, o1)
        s2 == DiversityCourse(s1, dist, ts, hmap, hbc, main_course, o2)
        s3 == DiversityCourse(s2, dist, ts, hmap, hbc, dessert, o3)
        routed == ThreadRoutes(dist, ts, hbc, hmap)
        kr == IF kdb = <<>>
              THEN [ok |-> TRUE, rows |-> rows, asg |-> routed]
              ELSE assign_guest_kitchens(routed, rows, ts, tdb, gks, kdb,
                       GuestKitchenDistances(ts, tdb, gks, kdb), dist)
        c3 == IF kdb = <<>> THEN c2
              ELSE UpdateProgress(UpdateProgress(c2, 7, TotalSteps), 8, TotalSteps)
        im == improve_guest_distribution(kr.asg, s3.gph, dist, hbc,
                                         DefaultMaxIterations)
        apd == AfterPartyDistances(ts, tdb, gks, kdb, party)
    IN IF ~kr.ok THEN Raised(c3, kr.rows)
       ELSE [ok |-> TRUE,
             assignments |-> IF party.exists THEN add_afterparty_routes(im.asg, apd)
                             ELSE im.asg,
             objective_value |->
                 IF party.exists
                 THEN afterparty_objective(im.asg, apd, TotalDistance(im.asg))
                 ELSE TotalDistance(im.asg),
             rows |-> kr.rows,
             cache |-> UpdateProgress(UpdateProgress(c3, 8, TotalSteps),
                                      10, TotalSteps),
             teams |-> ts]

OptimizeResults(tdb, kdb, party, rows, c) ==
    LET ts == LoadedTeams(tdb)
        dist == calculate_team_distances(ts, tdb)
        c1 == UpdateProgress(c, 2, TotalSteps)
        hmap == TeamHostingMap(ts)
    IN IF Len(ts) < MinTeams THEN {Raised(c, rows)}
       ELSE IF Len(ts) <= MipTeamLimit /\ MipFeasible(ts)
       THEN {[ok |-> TRUE,
              assignments |-> ExtractSolution(ts, dist, x),
              objective_value |-> MipObjective(ts, dist, x),
              rows |-> rows, cache |-> c1, teams |-> ts] :
                x \in MipAssignments(ts)}
       ELSE {HeuristicResult(ts, tdb, kdb, party, rows, c1, dist, o[1], o[2], o[3]) :
                o \in ShuffleOrders(GuestTeams(ts, hmap, appetizer))
                      \X ShuffleOrders(GuestTeams(ts, hmap, main_course))
                      \X ShuffleOrders(GuestTeams(ts, hmap, dessert))}

\* ----------------------------------------------------------------------
\* start_optimization: requests for the event, one statement at a time.
\* ----------------------------------------------------------------------
\* TeamAssignment.objects.create(...) followed by assignment.guests.set(...)
AssignmentRow(run, sol, t) ==
    [run |-> run,
     team |-> t,
     course |-> IF sol[t].course_hosted # None THEN sol[t].course_hosted ELSE guest_course,
     hosts |-> sol[t].hosts,
     distances |-> sol[t].distances,
     total_distance |-> sol[t].total_distance,
     guests |-> IF sol[t].course_hosted = None THEN {}
                ELSE {o \in DOMAIN sol :
                        o # t /\ sol[o].hosts[sol[t].course_hosted] = t}]

\* The rows of a run that was persisted completely.
PersistedRows(run, res) ==
    {AssignmentRow(run, res.assignments, t) : t \in Range(res.teams)}

RunRow(status) == [status |-> status, error_message |-> ""]

\* Model.save(): update the row, insert it if no row was updated.
SaveRun(rs, id, row) ==
    [i \in DOMAIN rs \cup {id} |-> IF i = id THEN row ELSE rs[i]]

\* Events on which the requests act: two or three full teams, the first
\* possibly without a kitchen, and possibly a further team that is a guest
\* only.
RunTeams ==
    {[i \in 1..n |->
        [ptype |-> IF i > MinTeams THEN "guest_only" ELSE "full",
         has_kitchen |-> i # nk,
         pos |-> (i % (MaxCoord + 1)) * Spacing,
         latlng |-> TRUE]] :
       n \in MinTeams - 1..MinTeams + 1, nk \in {0, 1}}

RunKitchens ==
    {kt \in KitchenTables : \A j \in DOMAIN kt : kt[j].latlng /\ kt[j].pos = 0}

\* Guest kitchens are offered where the first team has no kitchen.
RunEvents ==
    {e \in RunTeams \X RunKitchens :
        /\ e[2] # <<>> => Len(e[1]) = MinTeams /\ ~e[1][1].has_kitchen
        /\ Len(e[1]) # MinTeams => e[1][1].has_kitchen}

\* Either the event was never optimized, or an earlier request has left a
\* completed run with its assignments; the guest kitchens may have been
\* edited since.
InitRun ==
    /\ OptimizerInit
    /\ SvcIdle
    /\ \E e \in RunEvents : team_db = e[1] /\ kitchen_db = e[2]
    /\ after_party_db = NoParty
    /\ req = [r \in Requests |-> IdleRequest]
    /\ \/ /\ event_status = "registration_closed"
          /\ runs = <<>>
          /\ team_assignments = {}
          /\ kitchen_rows = {}
          /\ next_run_id = 1
       \/ \E prior \in RunEvents :
          \E res \in OptimizeResults(team_db, prior[2], after_party_db, {},
                                     InitProgress) :
             /\ prior[1] = team_db
             /\ res.ok
             /\ event_status = "optimized"
             /\ runs = SaveRun(<<>>, 1, RunRow("completed"))
             /\ team_assignments = PersistedRows(1, res)
             /\ kitchen_rows = res.rows
             /\ next_run_id = 2

SetReq(r, fields) == req' = [req EXCEPT ![r] = fields]

\* Lines 551-570: the checks, then event.status = 'optimization_running'.
BeginRequest(r) ==
    /\ req[r].pc = "idle"
    /\ UNCHANGED svcVars
    /\ IF Len(team_db) < MinTeams
       THEN /\ SetReq(r, [req[r] EXCEPT !.pc = "rejected"])
            /\ UNCHANGED event_status
       ELSE /\ event_status' = "optimization_running"
            /\ SetReq(r, [req[r] EXCEPT
                            !.pc = "delete_old",
                            !.before = [status |-> event_status,
                                        runs |-> DOMAIN runs,
                                        assignments |-> team_assignments]])
    /\ UNCHANGED <<optVars, runs, team_assignments, next_run_id>>

\* Lines 581-584: old_runs.delete(), the assignments going with them.
DeleteOldRuns(r) ==
    /\ req[r].pc = "delete_old"
    /\ UNCHANGED svcVars
    /\ runs' = <<>>
    /\ team_assignments' = {}
    /\ SetReq(r, [req[r] EXCEPT !.pc = "construct"])
    /\ UNCHANGED <<optVars, event_status, next_run_id>>

\* Line 590: RunningDinnerOptimizer(event), which resets the progress keys.
ConstructOptimizer(r) ==
    /\ req[r].pc = "construct"
    /\ UNCHANGED svcVars
    /\ cache' = InitProgress
    /\ SetReq(r, [req[r] EXCEPT !.pc = "create_run"])
    /\ UNCHANGED <<team_db, kitchen_db, after_party_db, kitchen_rows, pc, teams,
                   distances, guest_kitchen_distances, after_party_distances,
                   host_teams_by_course, team_hosting_map, guests_per_host,
                   team_meetings, assignments, objective_value, afterparty_stats,
                   moves, event_status, runs, team_assignments, next_run_id>>

\* Lines 593-608: OptimizationRun.objects.create(status='running', ...)
CreateRun(r) ==
    /\ req[r].pc = "create_run"
    /\ UNCHANGED svcVars
    /\ runs' = SaveRun(runs, next_run_id, RunRow("running"))
    /\ next_run_id' = next_run_id + 1
    /\ SetReq(r, [req[r] EXCEPT !.pc = "optimize", !.run = next_run_id])
    /\ UNCHANGED <<optVars, event_status, team_assignments>>

\* Line 612: solution = optimizer.optimize()
Optimize(r) ==
    /\ req[r].pc = "optimize"
    /\ UNCHANGED svcVars
    /\ \E res \in OptimizeResults(team_db, kitchen_db, after_party_db,
                                  kitchen_rows, cache) :
          /\ cache' = res.cache
          /\ kitchen_rows' = res.rows
          /\ SetReq(r, IF res.ok
                       THEN [req[r] EXCEPT !.pc = "persist",
                                           !.solution = res.assignments,
                                           !.todo = res.teams]
                       ELSE [req[r] EXCEPT !.pc = "except"])
    /\ UNCHANGED <<team_db, kitchen_db, after_party_db, pc, teams,
                   distances, guest_kitchen_distances, after_party_distances,
                   host_teams_by_course, team_hosting_map, guests_per_host,
                   team_meetings, assignments, objective_value, afterparty_stats,
                   moves, event_status, runs, team_assignments, next_run_id>>

\* Lines 619-657, one pass of the loop: the row refers to the run, and the
\* insert fails when the run's row is gone.
PersistAssignment(r) ==
    /\ req[r].pc = "persist"
    /\ UNCHANGED svcVars
    /\ req[r].todo # <<>>
    /\ IF req[r].run \in DOMAIN runs
       THEN /\ team_assignments' = team_assignments \cup
                  {AssignmentRow(req[r].run, req[r].solution, Head(req[r].todo))}
            /\ SetReq(r, [req[r] EXCEPT !.todo = Tail(@)])
       ELSE /\ SetReq(r, [req[r] EXCEPT !.pc = "except"])
            /\ UNCHANGED team_assignments
    /\ UNCHANGED <<optVars, event_status, runs, next_run_id>>

\* Lines 660-677: optimization_run.status = 'completed'; optimization_run.save()
CompleteRun(r) ==
    /\ req[r].pc = "persist"
    /\ UNCHANGED svcVars
    /\ req[r].todo = <<>>
    /\ runs' = SaveRun(runs, req[r].run, RunRow("completed"))
    /\ SetReq(r, [req[r] EXCEPT !.pc = "set_optimized"])
    /\ UNCHANGED <<optVars, event_status, team_assignments, next_run_id>>

\* Lines 680-687: event.status = 'optimized'; event.save()
SetOptimized(r) ==
    /\ req[r].pc = "set_optimized"
    /\ UNCHANGED svcVars
    /\ event_status' = "optimized"
    /\ SetReq(r, [req[r] EXCEPT !.pc = "done"])
    /\ UNCHANGED <<optVars, runs, team_assignments, next_run_id>>

\* Lines 689-693: except Exception: event.status = 'registration_closed'
HandleException(r) ==
    /\ req[r].pc = "except"
    /\ UNCHANGED svcVars
    /\ event_status' = "registration_closed"
    /\ SetReq(r, [req[r] EXCEPT !.pc = "done", !.failed = TRUE])
    /\ UNCHANGED <<optVars, runs, team_assignments, next_run_id>>

NextRun ==
    \E r \in Requests :
        \/ BeginRequest(r)
        \/ DeleteOldRuns(r)
        \/ ConstructOptimizer(r)
        \/ CreateRun(r)
        \/ Optimize(r)
        \/ PersistAssignment(r)
        \/ CompleteRun(r)
        \/ SetOptimized(r)
        \/ HandleException(r)

SpecRun == InitRun /\ [][NextRun]_vars

\* ----------------------------------------------------------------------
\* Properties of start_optimization
\* ----------------------------------------------------------------------
Fails(r) == req[r].pc = "except" /\ req'[r].pc = "done"
Succeeds(r) == req[r].pc = "set_optimized" /\ req'[r].pc = "done"

\* C6: when a request ends in failure, the event has the status it had when
\* the request came in, and the runs and assignments that existed then still
\* exist.
C6_StateUnchangedOnFailure ==
    [][\A r \in Requests :
          Fails(r) =>
             /\ event_status' = req[r].before.status
             /\ req[r].before.runs \subseteq DOMAIN runs'
             /\ req[r].before.assignments \subseteq team_assignments']_vars

\* C7: when a request ends in failure, its run is in status 'failed' with an
\* error message, so no run stays 'running' once its request is over.
C7_FailedRunIsMarked ==
    [][\A r \in Requests :
          Fails(r) =>
             /\ req[r].run \in DOMAIN runs'
             /\ runs'[req[r].run].status = "failed"
             /\ runs'[req[r].run].error_message # ""]_vars

\* After a successful request: one run, completed, with exactly one assignment
\* per confirmed team and no other assignment, and the event is 'optimized'.
Committed ==
    /\ Cardinality(DOMAIN runs) = 1
    /\ \A id \in DOMAIN runs : runs[id].status = "completed"
    /\ \A t \in DOMAIN team_db :
          Cardinality({a \in team_assignments : a.team = t}) = 1
    /\ \A a \in team_assignments : a.run \in DOMAIN runs /\ a.team \in DOMAIN team_db
    /\ event_status = "optimized"

\* C8: the commit postcondition holds when a request ends successfully.
C8_CommitPostcondition ==
    [][\A r \in Requests : Succeeds(r) => Committed']_vars

\* A request between its first progress write and its commit or failure.
InRun(r) ==
    req[r].pc \in {"create_run", "optimize", "persist", "set_optimized", "except"}

\* C9: while a request is in its run, no step of another request changes the
\* runs, the assignments or the progress entries of the event.
C9_NoOverlap ==
    [][\A r \in Requests :
          InRun(r) /\ req'[r] = req[r] =>
             /\ runs' = runs
             /\ team_assignments' = team_assignments
             /\ cache' = cache]_vars

\* ----------------------------------------------------------------------
\* RouteCalculator (src/events/routing.py)
\* ----------------------------------------------------------------------
MaxCalls == 2             \* direct calls of calculate_walking_distance
MaxProvider == 1          \* a provider's route is 0..MaxProvider long

ProviderResults == 0..MaxProvider

\* The second provider (OSRM) after `requests` requests were already made: a
\* route, which is cached and returned, or no route or an exception, which
\* both end in the great-circle estimate, returned without being cached.
OsrmOutcomes(rc, key, requests) ==
    {[result |-> v, requests |-> requests + 1, cache |-> [rc EXCEPT ![key] = v]] :
        v \in ProviderResults}
    \cup {[result |-> calculate_walking_distance(key[1], key[2]),
           requests |-> requests + 1, cache |-> rc]}

\* calculate_walking_distance(start, end): every outcome one call can have.
\* A cached value is used only if it is truthy.
WalkingDistanceOutcomes(rc, key, has_key) ==
    IF rc[key] # Missing /\ rc[key] # 0
    THEN {[result |-> rc[key], requests |-> 0, cache |-> rc]}
    ELSE IF has_key
         THEN {[result |-> v, requests |-> 1, cache |-> [rc EXCEPT ![key] = v]] :
                  v \in ProviderResults}
              \cup {[result |-> calculate_walking_distance(key[1], key[2]),
                     requests |-> 1, cache |-> rc]}
              \cup OsrmOutcomes(rc, key, 1)
         ELSE OsrmOutcomes(rc, key, 0)

\* What a call leaves behind, for the observer of the calls.
RecordCall(key, o) ==
    /\ route_cache' = o.cache
    /\ returned' = [returned EXCEPT ![key] = o.result]
    /\ last_call' = [key |-> key, result |-> o.result, requests |-> o.requests,
                     oracle |-> TRUE]

\* One direct call of calculate_walking_distance.
CalculateWalkingDistance ==
    /\ td.pc = "idle"
    /\ n_calls < MaxCalls
    /\ \E key \in RouteKeys :
       \E o \in WalkingDistanceOutcomes(route_cache, key, api_key) :
          RecordCall(key, o)
    /\ n_calls' = n_calls + 1
    /\ UNCHANGED <<api_key, td, optVars, runVars, logVars, cacheVars>>

\* --- calculate_team_distances ---------------------------------------------
TeamIds(coords) == 1..Len(coords)

TeamPairs(coords) == {{a, b} : a \in TeamIds(coords), b \in TeamIds(coords)} \ {{}}

mirrored_mutant(d, a, b) == FALSE

\* (team2.id, team1.id) in distances
mirrored(d, a, b) == d[<<b, a>>] # Missing

\* get_coordinates_from_address for every team (it always yields coordinates;
\* teams with the same address share them), then the empty matrix.
StartTeamDistances ==
    /\ td.pc = "idle"
    /\ \E coords \in [1..MinTeams -> Coords] :
          td' = [pc |-> "loop", coords |-> coords, i |-> 1, j |-> 1,
                 distances |-> [p \in TeamIds(coords) \X TeamIds(coords) |-> Missing],
                 calls |-> [pr \in TeamPairs(coords) |-> 0]]
    /\ UNCHANGED <<api_key, route_cache, returned, last_call, n_calls,
                   optVars, runVars, logVars, cacheVars>>

\* The loop position after (i, j).
NextPair(t) ==
    IF t.j < Len(t.coords) THEN [t EXCEPT !.j = @ + 1]
    ELSE IF t.i < Len(t.coords) THEN [t EXCEPT !.i = @ + 1, !.j = 1]
    ELSE [t EXCEPT !.pc = "validate"]

\* One iteration of the double loop over (team1, team2).
TeamDistancesStep ==
    /\ td.pc = "loop"
    /\ LET a == td.i
           b == td.j
       IN IF a = b
          THEN /\ td' = NextPair([td EXCEPT !.distances[<<a, b>>] = 0])
               /\ UNCHANGED <<route_cache, returned, last_call>>
          ELSE IF mirrored(td.distances, a, b)
          THEN /\ td' = NextPair([td EXCEPT
                              !.distances[<<a, b>>] = td.distances[<<b, a>>]])
               /\ UNCHANGED <<route_cache, returned, last_call>>
          ELSE LET key == <<td.coords[a], td.coords[b]>>
               IN \E o \in WalkingDistanceOutcomes(route_cache, key, api_key) :
                     LET distance == IF o.result # 0 THEN o.result ELSE FallbackError
                     IN /\ RecordCall(key, o)
                        /\ td' = NextPair([td EXCEPT
                                     !.distances[<<a, b>>] = distance,
                                     !.distances[<<b, a>>] = distance,
                                     !.calls[{a, b}] = @ + 1])
    /\ UNCHANGED <<api_key, n_calls, optVars, runVars, logVars, cacheVars>>

\* calculate_distances, lines 207-216: a missing entry gets the fallback.
ValidateDistances ==
    /\ td.pc = "validate"
    /\ td' = [td EXCEPT
                !.pc = "done",
                !.distances = [p \in DOMAIN td.distances |->
                                  IF td.distances[p] = Missing THEN FallbackError
                                  ELSE td.distances[p]]]
    /\ UNCHANGED <<api_key, route_cache, returned, last_call, n_calls,
                   optVars, runVars, logVars, cacheVars>>

\* No event data, no optimizer at work, no request.
NoEvent ==
    /\ team_db = <<>>
    /\ kitchen_db = <<>>
    /\ after_party_db = NoParty
    /\ kitchen_rows = {}
    /\ OptimizerInit
    /\ NoRequests

InitRoute ==
    /\ NoEvent
    /\ api_key \in BOOLEAN
    /\ route_cache = [key \in RouteKeys |-> Missing]
    /\ returned = [key \in RouteKeys |-> Missing]
    /\ last_call = NoCall
    /\ n_calls = 0
    /\ td = IdleTd
    /\ LogIdle
    /\ CacheIdle

NextRoute ==
    \/ CalculateWalkingDistance
    \/ StartTeamDistances
    \/ TeamDistancesStep
    \/ ValidateDistances

SpecRoute == InitRoute /\ [][NextRoute]_vars

\* C16: when calculate_distances has built the matrix, every entry exists and
\* is non-negative, the matrix is symmetric with a zero diagonal, and the
\* oracle was called at most once for every unordered pair of teams.
C16_DistanceMatrix ==
    /\ td.pc # "idle" =>
          \A pr \in TeamPairs(td.coords) : td.calls[pr] <= 1
    /\ td.pc = "done" =>
          \A a \in TeamIds(td.coords), b \in TeamIds(td.coords) :
             /\ td.distances[<<a, b>>] # Missing
             /\ td.distances[<<a, b>>] >= 0
             /\ td.distances[<<a, b>>] = td.distances[<<b, a>>]
             /\ td.distances[<<a, a>>] = 0

\* A finished matrix for which the oracle was asked about every pair, gave a
\* zero distance for one (replaced by the fallback) and a route for another.
C16_Witness ==
    /\ td.pc = "done"
    /\ \A pr \in TeamPairs(td.coords) : Cardinality(pr) = 2 => td.calls[pr] = 1
    /\ \E a \in TeamIds(td.coords), b \in TeamIds(td.coords) :
          a # b /\ td.distances[<<a, b>>] = FallbackError
    /\ \E a \in TeamIds(td.coords), b \in TeamIds(td.coords) :
          a # b /\ td.distances[<<a, b>>] \in ProviderResults

\* C17: a call of calculate_walking_distance for a coordinate pair for which
\* an earlier call has returned gives the value that call returned and makes
\* no upstream request.
C17_CacheHit ==
    [][last_call' # last_call /\ returned[last_call'.key] # Missing =>
          /\ last_call'.result = returned[last_call'.key]
          /\ last_call'.requests = 0]_vars

\* ----------------------------------------------------------------------
\* run_additional_optimization: the view constructs an optimizer for the
\* event (pc = "start") and calls it, step by step; any exception ends the
\* call in "raised" and is caught by the view.
\* ----------------------------------------------------------------------
DefaultAdditionalIterations == 5

\* self.event.optimization_runs.filter(status='completed')
\*     .order_by('-completed_at').first(), None if there is none
latest_optimization(rs) ==
    LET done == {i \in DOMAIN rs : rs[i].status = "completed"}
    IN IF done = {} THEN None ELSE 0 - SetMin({0 - i : i \in done})

\* _convert_assignments_to_solution: the rows of the run as assignments.  The
\* distances are the rows' Decimal values.
convert_assignments_to_solution(rows) ==
    [t \in {row.team : row \in rows} |->
        LET row == CHOOSE x \in rows : x.team = t
        IN [team |-> t,
            hosts |-> row.hosts,
            course_hosted |-> row.course,
            distances |-> row.distances,
            total_distance |-> row.total_distance,
            guest_kitchen_usage |-> [c \in Courses |-> None],
            afterparty_from |-> None,
            afterparty_distance |-> 0]]

\* _rebuild_guest_mapping: per host the teams that have it as host of a course
\* they do not host, and per course its hosts, both in the order of the rows.
rebuild_guest_mapping(ts, rows) ==
    LET row(t) == CHOOSE x \in rows : x.team = t
        present == SelectSeq(ts, LAMBDA t : \E x \in rows : x.team = t)
    IN [gph |-> [h \in Range(ts) |->
                    SelectSeq(present, LAMBDA t :
                        \E c \in Courses : c # row(t).course /\ row(t).hosts[c] = h)],
        hbc |-> [c \in Courses |->
                    SelectSeq(present, LAMBDA t : row(t).course = c)]]

\* Lines 1223-1232: the latest completed run, or ValueError.
LoadSolution ==
    /\ pc = "start"
    /\ IF latest_optimization(runs) = None
       THEN pc' = "raised" /\ UNCHANGED cache
       ELSE pc' = "add_loading" /\ cache' = UpdateProgress(cache, 0, 3)
    /\ UNCHANGED <<team_db, kitchen_db, after_party_db, kitchen_rows, teams,
                   distances, guest_kitchen_distances, after_party_distances,
                   host_teams_by_course, team_hosting_map, guests_per_host,
                   team_meetings, assignments, objective_value, afterparty_stats,
                   moves>>
    /\ UNCHANGED <<runVars, svcVars>>

\* Lines 1235-1236: load_teams and calculate_distances.
ReloadDistances ==
    /\ pc = "add_loading"
    /\ teams' = LoadedTeams(team_db)
    /\ IF Len(LoadedTeams(team_db)) < MinTeams
       THEN /\ pc' = "raised"
            /\ UNCHANGED <<cache, distances, guest_kitchen_distances,
                           after_party_distances>>
       ELSE /\ pc' = "add_distances"
            /\ cache' = UpdateProgress(cache, 2, TotalSteps)
            /\ distances' = calculate_team_distances(LoadedTeams(team_db), team_db)
            /\ guest_kitchen_distances' =
                  GuestKitchenDistances(LoadedTeams(team_db), team_db,
                                        GuestKitchens, kitchen_db)
            /\ after_party_distances' =
                  AfterPartyDistances(LoadedTeams(team_db), team_db,
                                      GuestKitchens, kitchen_db, after_party_db)
    /\ UNCHANGED <<team_db, kitchen_db, after_party_db, kitchen_rows,
                   host_teams_by_course, team_hosting_map, guests_per_host,
                   team_meetings, assignments, objective_value, afterparty_stats,
                   moves>>
    /\ UNCHANGED <<runVars, svcVars>>

\* Lines 1239-1247: the solution and the guest lists from the run's rows.
ConvertSolution ==
    /\ pc = "add_distances"
    /\ LET rows == {row \in team_assignments :
                       row.run = latest_optimization(runs)}
           maps == rebuild_guest_mapping(teams, rows)
       IN /\ assignments' = convert_assignments_to_solution(rows)
          /\ objective_value' = TotalDistance(convert_assignments_to_solution(rows))
          /\ guests_per_host' = maps.gph
          /\ host_teams_by_course' = maps.hbc
    /\ cache' = UpdateProgress(cache, 2, 3)
    /\ pc' = "add_converted"
    /\ UNCHANGED <<team_db, kitchen_db, after_party_db, kitchen_rows, teams,
                   distances, guest_kitchen_distances, after_party_distances,
                   team_hosting_map, team_meetings, afterparty_stats, moves>>
    /\ UNCHANGED <<runVars, svcVars>>

\* Lines 1250-1252: improve_guest_distribution on the converted solution.
\* The solution's distances are Decimal and self.distances are float: the
\* first move (new_distance - old_distance) and the first after-party leg
\* added to a total_distance raise TypeError.  Without either, the call ends
\* with its progress update 5 of 5.
ImproveSolution ==
    /\ pc = "add_converted"
    /\ LET r == improve_guest_distribution(assignments, guests_per_host, distances,
                    host_teams_by_course, DefaultAdditionalIterations)
           legs == after_party_db.exists
                   /\ add_afterparty_routes(assignments, after_party_distances)
                         # assignments
       IN /\ moves' = Min2(r.moves, 1)
          /\ IF r.moves > 0 \/ legs
             THEN pc' = "raised" /\ UNCHANGED cache
             ELSE pc' = "add_improved"
                  /\ cache' = UpdateProgress(cache, 10, TotalSteps)
    /\ UNCHANGED <<team_db, kitchen_db, after_party_db, kitchen_rows, teams,
                   distances, guest_kitchen_distances, after_party_distances,
                   host_teams_by_course, team_hosting_map, guests_per_host,
                   team_meetings, assignments, objective_value, afterparty_stats>>
    /\ UNCHANGED <<runVars, svcVars>>

\* Lines 1254-1264: the progress update 2 of 3, then
\* _update_existing_assignments, whose first statement in the loop reads
\* optimization_run.assignments (the related name is team_assignments) and
\* raises AttributeError; with no assignment the run is saved and the call
\* returns after the update 3 of 3.
SaveImprovements ==
    /\ pc = "add_improved"
    /\ IF DOMAIN assignments # {}
       THEN /\ cache' = UpdateProgress(cache, 4, 3)
            /\ pc' = "raised"
       ELSE /\ cache' = UpdateProgress(UpdateProgress(cache, 4, 3), 6, 3)
            /\ pc' = "returned"
    /\ UNCHANGED <<team_db, kitchen_db, after_party_db, kitchen_rows, teams,
                   distances, guest_kitchen_distances, after_party_distances,
                   host_teams_by_course, team_hosting_map, guests_per_host,
                   team_meetings, assignments, objective_value, afterparty_stats,
                   moves>>
    /\ UNCHANGED <<runVars, svcVars>>

\* The event as a start_optimization request has left it (a completed run
\* with its rows) or an event that was never optimized; no guest kitchens;
\* an after-party for the smaller events.
InitAdd ==
    /\ OptimizerInit
    /\ SvcIdle
    /\ team_db \in CoreEvents
    /\ kitchen_db = <<>>
    /\ kitchen_rows = {}
    /\ after_party_db \in
          IF Len(team_db) <= MaxKitchenTeams THEN Parties ELSE {NoParty}
    /\ req = [r \in Requests |-> IdleRequest]
    /\ \/ /\ event_status = "registration_closed"
          /\ Len(team_db) = MinTeams
          /\ runs = <<>>
          /\ team_assignments = {}
          /\ next_run_id = 1
       \/ \E res \in OptimizeResults(team_db, kitchen_db, after_party_db, {},
                                     InitProgress) :
             /\ res.ok
             /\ event_status = "optimized"
             /\ runs = SaveRun(<<>>, 1, RunRow("completed"))
             /\ team_assignments = PersistedRows(1, res)
             /\ next_run_id = 2

NextAdd ==
    \/ LoadSolution
    \/ ReloadDistances
    \/ ConvertSolution
    \/ ImproveSolution
    \/ SaveImprovements

SpecAdd == InitAdd /\ [][NextAdd]_vars

\* C18: over the lifetime of one optimizer instance the progress snapshots
\* have a non-decreasing step, and the status never goes back from
\* 'completed' to 'running'.
C18_ProgressMonotone ==
    [][/\ cache'.progress.step2 >= cache.progress.step2
       /\ ~(cache.progress.status = "completed"
            /\ cache'.progress.status = "running")]_vars

\* ----------------------------------------------------------------------
\* The progress display: one optimizer writing, get_optimization_progress
\* reading, the cache dropping keys (timeout=300).
\* ----------------------------------------------------------------------
MaxWrites == 53           \* _update_progress calls of the writer
ResponseLogs == 20        \* logs[-20:]

\* s[-n:]
LastEntries(s, n) == SubSeq(s, Max2(1, Len(s) - n + 1), Len(s))

\* cache.get(self.log_key, [])
StoredLogs == IF "log" \in live_keys THEN cache.logs ELSE <<>>

Constructed == live_keys # {} \/ expired

\* RunningDinnerOptimizer(event): _init_progress sets both keys.
InitProgressCall ==
    /\ ~Constructed
    /\ cache' = InitProgress
    /\ live_keys' = {"progress", "log"}
    /\ UNCHANGED <<written, expired, response>>
    /\ UNCHANGED <<team_db, kitchen_db, after_party_db, kitchen_rows, pc, teams,
                   distances, guest_kitchen_distances, after_party_distances,
                   host_teams_by_course, team_hosting_map, guests_per_host,
                   team_meetings, assignments, objective_value, afterparty_stats,
                   moves>>
    /\ UNCHANGED <<runVars, routeVars, cacheVars>>

\* _update_progress(step, total_steps, ...): the writer goes through the
\* steps 1..5 again and again, of 5 or of 3.
UpdateProgressCall ==
    /\ Constructed
    /\ response = NoResponse
    /\ Len(written) < MaxWrites
    /\ \E total_steps \in {3, TotalSteps} :
          LET step2 == 2 * ((Len(written) % TotalSteps) + 1)
          IN /\ cache' = UpdateProgress([cache EXCEPT !.logs = StoredLogs],
                                        step2, total_steps)
             /\ written' = Append(written, step2)
    /\ live_keys' = {"progress", "log"}
    /\ UNCHANGED <<expired, response>>
    /\ UNCHANGED <<team_db, kitchen_db, after_party_db, kitchen_rows, pc, teams,
                   distances, guest_kitchen_distances, after_party_distances,
                   host_teams_by_course, team_hosting_map, guests_per_host,
                   team_meetings, assignments, objective_value, afterparty_stats,
                   moves>>
    /\ UNCHANGED <<runVars, routeVars, cacheVars>>

\* Keys time out (or are culled) once.
ExpireKeys ==
    /\ ~expired
    /\ response = NoResponse
    /\ \E gone \in SUBSET live_keys :
          /\ gone # {}
          /\ live_keys' = live_keys \ gone
    /\ expired' = TRUE
    /\ UNCHANGED <<written, response>>
    /\ UNCHANGED <<optVars, runVars, routeVars, cacheVars>>

\* get_optimization_progress: 403 unless staff or superuser, else the
\* progress (the 'idle' default without the key) and the last 20 logs.
GetOptimizationProgress ==
    /\ response = NoResponse
    /\ \E staff \in BOOLEAN :
          response' =
             IF ~staff THEN [code |-> 403, status |-> "", logs |-> <<>>]
             ELSE [code |-> 200,
                   status |-> IF "progress" \in live_keys
                              THEN cache.progress.status ELSE "idle",
                   logs |-> LastEntries(StoredLogs, ResponseLogs)]
    /\ UNCHANGED <<live_keys, written, expired>>
    /\ UNCHANGED <<optVars, runVars, routeVars, cacheVars>>

\* The client has received the answer.
ReceiveResponse ==
    /\ response # NoResponse
    /\ response' = NoResponse
    /\ UNCHANGED <<live_keys, written, expired>>
    /\ UNCHANGED <<optVars, runVars, routeVars, cacheVars>>

\* No optimizer was constructed for the event yet: no key exists.
InitLog ==
    /\ NoEvent
    /\ RouteIdle
    /\ CacheIdle
    /\ live_keys = {}
    /\ written = <<>>
    /\ expired = FALSE
    /\ response = NoResponse

NextLog ==
    \/ InitProgressCall
    \/ UpdateProgressCall
    \/ ExpireKeys
    \/ GetOptimizationProgress
    \/ ReceiveResponse

SpecLog == InitLog /\ [][NextLog]_vars

\* C19: the stored log has at most 50 entries, which are the most recent
\* entries written, in write order (all of the last 50 unless a key was
\* dropped in between); the endpoint answers with the last 20 stored entries
\* at most, and with status 'idle' when the progress key does not exist.
C19_LogRingBuffer ==
    /\ Len(StoredLogs) <= LogLimit
    /\ StoredLogs = LastEntries(written, Len(StoredLogs))
    /\ ~expired /\ Constructed => Len(StoredLogs) = Min2(LogLimit, Len(written))
    /\ response.code = 200 =>
          /\ Len(response.logs) = Min2(ResponseLogs, Len(StoredLogs))
          /\ response.logs = LastEntries(written, Len(response.logs))
          /\ "progress" \notin live_keys => response.status = "idle"

\* More than 50 entries were written, 50 are stored and 20 were returned.
C19_Witness ==
    /\ Len(written) > LogLimit
    /\ Len(StoredLogs) = LogLimit
    /\ response.code = 200
    /\ Len(response.logs) = ResponseLogs

\* ----------------------------------------------------------------------
\* The cache managers (cache_utils.py) and the signals (cache_signals.py)
\* ----------------------------------------------------------------------
\* EventCacheManager.invalidate_event_cache: cache.delete of four keys.
invalidate_event_cache(c, e) ==
    [c EXCEPT ![e] = [key \in CacheKeys |->
        IF key \in {"evt:summary", "evt:teams", "evt:detail", "opt:results"}
        THEN "absent" ELSE c[e][key]]]

\* OptimizationCacheManager.get_optimization_results(event_id): cache.get of
\* the 'latest' key, None when absent.
get_optimization_results(c, e) ==
    IF c[e]["opt:latest"] = "absent" THEN "none" ELSE c[e]["opt:latest"]

\* EventCacheManager.set_event_summary(event_id, data), as called by
\* warm_cache_for_event.
SetEventSummary(e) ==
    /\ kv' = [kv EXCEPT ![e]["evt:summary"] = "data"]
    /\ changed' = 0
    /\ UNCHANGED <<optVars, runVars, routeVars, logVars>>

\* EventCacheManager.set_team_registrations(event_id, data), as called by
\* warm_cache_for_event.
SetTeamRegistrations(e) ==
    /\ kv' = [kv EXCEPT ![e]["evt:teams"] = "data"]
    /\ changed' = 0
    /\ UNCHANGED <<optVars, runVars, routeVars, logVars>>

\* OptimizationCacheManager.set_optimization_results(event_id, data).
SetOptimizationResults(e) ==
    /\ \E data \in {"none", "data"} : kv' = [kv EXCEPT ![e]["opt:latest"] = data]
    /\ changed' = 0
    /\ UNCHANGED <<optVars, runVars, routeVars, logVars>>

\* post_save / post_delete of an OptimizationRun of the event:
\* set_optimization_results(event_id, None).
OptimizationRunChanged(e) ==
    /\ kv' = [kv EXCEPT ![e]["opt:latest"] = "none"]
    /\ changed' = 0
    /\ UNCHANGED <<optVars, runVars, routeVars, logVars>>

\* post_save / post_delete of the Event: the signal's invalidate_event_cache.
EventChanged(e) ==
    /\ kv' = invalidate_event_cache(kv, e)
    /\ changed' = e
    /\ UNCHANGED <<optVars, runVars, routeVars, logVars>>

InitCache ==
    /\ NoEvent
    /\ RouteIdle
    /\ LogIdle
    /\ CacheIdle

NextCache ==
    \E e \in EventIds :
       \/ SetEventSummary(e)
       \/ SetTeamRegistrations(e)
       \/ SetOptimizationResults(e)
       \/ OptimizationRunChanged(e)
       \/ EventChanged(e)

SpecCache == InitCache /\ [][NextCache]_vars

\* C20: after a save or delete of an Event, the event caches (summary, teams,
\* detail) and the latest-run cache read by get_optimization_results hold no
\* value for that event, whatever was cached before.
C20_InvalidatedOnEventChange ==
    changed # 0 =>
       /\ \A key \in {"evt:summary", "evt:teams", "evt:detail"} :
             kv[changed][key] \in {"absent", "none"}
       /\ get_optimization_results(kv, changed) = "none"

\* ----------------------------------------------------------------------
\* Further properties of optimize()
\* ----------------------------------------------------------------------
\* C21: every run of the heuristic for the same event, teams and distance
\* matrix returns the same assignments, whatever its shuffles (whatever the
\* random generator's state, which the geocoding reseeds): the assignments
\* returned are those of the run on the same data that leaves every guest
\* list unshuffled.
C21_Reproducible ==
    pc = "returned" =>
       LET again == HeuristicResult(teams, team_db, kitchen_db, after_party_db,
                       kitchen_rows, InitProgress, distances,
                       GuestTeams(teams, team_hosting_map, appetizer),
                       GuestTeams(teams, team_hosting_map, main_course),
                       GuestTeams(teams, team_hosting_map, dessert))
       IN again.ok /\ again.assignments = assignments

\* A run whose shuffle put a later team before an earlier one in a guest list.
C21_Witness ==
    /\ pc = "returned"
    /\ Len(teams) >= 2 * MinTeams
    /\ \E h \in DOMAIN guests_per_host :
          /\ Len(guests_per_host[h]) = 2
          /\ guests_per_host[h][1] > guests_per_host[h][2]

\* --- optimize() for nine teams ------------------------------------------------
NineTeams == 9

\* Nine full teams with kitchens at any positions; no guest kitchens, no
\* after-party.
InitNine ==
    /\ team_db \in [1..NineTeams -> {FullTeam(p) : p \in Positions}]
    /\ kitchen_db = <<>>
    /\ after_party_db = NoParty
    /\ kitchen_rows = {}
    /\ OptimizerInit
    /\ NoRequests
    /\ SvcIdle

SpecNine == InitNine /\ [][Next]_vars

\* Where a team is during a course: at home when it hosts, else at its host.
TableOf(t, c) ==
    IF assignments[t].course_hosted = c THEN t ELSE assignments[t].hosts[c]

\* C22: for nine teams without kitchens, in the final assignments every host
\* has exactly 2 guests and no two teams are at the same host in more than
\* one course.
C22_PerfectDiversity ==
    pc = "returned" =>
       /\ \A c \in Courses : \A h \in Range(host_teams_by_course[c]) :
             Cardinality({t \in DOMAIN assignments : assignments[t].hosts[c] = h}) = 2
       /\ \A a \in DOMAIN assignments, b \in DOMAIN assignments :
             a # b => Cardinality({c \in Courses : TableOf(a, c) = TableOf(b, c)}) <= 1

\* --- assign_guest_kitchens, opportunistic pass ------------------------------
\* The guest visits the kitchen stage re-routed: team, course, kitchen.
Rerouted ==
    {v \in (DOMAIN assignments') \X Courses \X (DOMAIN kitchen_db) :
        /\ assignments[v[1]].guest_kitchen_usage[v[2]] = None
        /\ assignments'[v[1]].guest_kitchen_usage[v[2]] = v[3]}

\* C23: a guest visit is re-routed to a kitchen only if the kitchen allows the
\* course, has capacity left and is at least 3.0 km closer than the stored leg
\* of the visit; afterwards distances[course] is the distance to the kitchen,
\* total_distance is reduced by the saving and the host is unchanged.
C23_KitchenReroute ==
    [][pc = "routed" /\ pc' = "kitchens" =>
         \A v \in Rerouted :
            LET t == v[1]
                c == v[2]
                kitchen == v[3]
                to_kitchen == guest_kitchen_distances[<<t, kitchen>>]
                leg == assignments[t].distances[c]
            IN /\ can_host_course(kitchen_db[kitchen], c)
               /\ KitchenUsage(kitchen_rows', kitchen, c) <= kitchen_db[kitchen].max_teams
               /\ to_kitchen + MinSavings <= leg
               /\ assignments'[t].distances[c] = to_kitchen
               /\ assignments'[t].total_distance =
                     assignments[t].total_distance - (leg - to_kitchen)
               /\ assignments'[t].hosts[c] = assignments[t].hosts[c]]_vars

\* --- calculate_distances, one stage per step, counting the oracle calls ------
MaxDistKitchens == 2

InitDistances ==
    /\ team_db \in [1..MinTeams -> {FullTeam(p) : p \in Positions}]
    /\ kitchen_db \in UNION {[1..j -> Kitchens] : j \in 0..MaxDistKitchens}
    /\ after_party_db \in Parties
    /\ kitchen_rows = {}
    /\ OptimizerInit
    /\ NoRequests
    /\ SvcIdle

\* Teams and kitchens whose latitude and longitude are set.
LocatedTeams == {t \in Range(teams) : team_db[t].latlng}
LocatedKitchens == {j \in DOMAIN kitchen_db : kitchen_db[j].latlng}

\* route_calculator.calculate_team_distances(self.teams): one call per pair
\* of teams, the other direction is mirrored.
CalcTeamDistances ==
    /\ pc = "loaded"
    /\ cache' = UpdateProgress(cache, 2, TotalSteps)
    /\ distances' = calculate_team_distances(teams, team_db)
    /\ n_calls' = n_calls
          + Cardinality({p \in LocatedTeams \X LocatedTeams : p[1] < p[2]})
    /\ pc' = "team_distances"
    /\ UNCHANGED <<team_db, kitchen_db, after_party_db, kitchen_rows, teams,
                   guest_kitchen_distances, after_party_distances,
                   host_teams_by_course, team_hosting_map, guests_per_host,
                   team_meetings, assignments, objective_value, afterparty_stats,
                   moves>>
    /\ UNCHANGED <<runVars, api_key, route_cache, returned, last_call, td,
                   logVars, cacheVars>>

\* "for kitchen in self.guest_kitchens": every located kitchen to every
\* located team and to every other located kitchen.
CalcKitchenDistances ==
    /\ pc = "team_distances"
    /\ guest_kitchen_distances' =
          GuestKitchenDistances(teams, team_db, GuestKitchens, kitchen_db)
    /\ n_calls' = n_calls
          + Cardinality(LocatedKitchens \X LocatedTeams)
          + Cardinality({p \in LocatedKitchens \X LocatedKitchens : p[1] # p[2]})
    /\ pc' = "kitchen_distances"
    /\ UNCHANGED <<team_db, kitchen_db, after_party_db, kitchen_rows, cache, teams,
                   distances, after_party_distances,
                   host_teams_by_course, team_hosting_map, guests_per_host,
                   team_meetings, assignments, objective_value, afterparty_stats,
                   moves>>
    /\ UNCHANGED <<runVars, api_key, route_cache, returned, last_call, td,
                   logVars, cacheVars>>

\* "if self.after_party and ...latitude and ...longitude": every located team
\* and every located kitchen to the after-party.
CalcAfterPartyDistances ==
    /\ pc = "kitchen_distances"
    /\ after_party_distances' =
          AfterPartyDistances(teams, team_db, GuestKitchens, kitchen_db, after_party_db)
    /\ n_calls' = n_calls
          + IF after_party_db.exists /\ after_party_db.latlng
            THEN Cardinality(LocatedTeams) + Cardinality(LocatedKitchens)
            ELSE 0
    /\ pc' = "distances"
    /\ UNCHANGED <<team_db, kitchen_db, after_party_db, kitchen_rows, cache, teams,
                   distances, guest_kitchen_distances,
                   host_teams_by_course, team_hosting_map, guests_per_host,
                   team_meetings, assignments, objective_value, afterparty_stats,
                   moves>>
    /\ UNCHANGED <<runVars, api_key, route_cache, returned, last_call, td,
                   logVars, cacheVars>>

NextDistances ==
    \/ LoadTeams
    \/ CalcTeamDistances
    \/ CalcKitchenDistances
    \/ CalcAfterPartyDistances

SpecDistances == InitDistances /\ [][NextDistances]_vars

\* C24: building all distances for n teams, K guest kitchens and an
\* after-party issues at most n(n-1)/2 + n*K + n + K calls to
\* calculate_walking_distance.
C24_OracleCallBound ==
    pc = "distances" =>
       LET n == Len(teams)
           K == Len(kitchen_db)
       IN n_calls <= (n * (n - 1)) \div 2 + n * K + n + K

\* --- _optimize_team_diversity, the placement of one guest -------------------
\* The score of the specification: 1000 per recorded meeting with each guest
\* already at the host and with the host, the host counted once, plus the
\* distance.
StatedScore(gph, meetings, dist, guest, host) ==
    DiversityWeight * (SeqSum([i \in 1..Len(gph[host]) |->
                                 meetings[PairKey(guest, gph[host][i])]])
                       + meetings[PairKey(guest, host)])
    + dist[<<guest, host>>]

\* The placement of one guest follows the stated score and counts the new
\* meetings.
PlacementAsStated(st, dist, host_teams, n_guests, guest) ==
    LET open == OpenHosts(st.gph, host_teams, n_guests)
        h == best_host_for(st.gph, st.meetings, dist, host_teams, n_guests, guest)
        after == PlaceGuest(st, dist, host_teams, n_guests, guest)
        score(x) == StatedScore(st.gph, st.meetings, dist, guest, x)
    IN h # None =>
          /\ \A j \in DOMAIN open :
                /\ score(h) <= score(open[j])
                /\ j < IndexOf(open, h) + 1 => score(h) < score(open[j])
          /\ after.meetings[PairKey(guest, h)] = st.meetings[PairKey(guest, h)] + 1
          /\ \A e \in Range(st.gph[h]) :
                after.meetings[PairKey(guest, e)] = st.meetings[PairKey(guest, e)] + 1

RECURSIVE PlacementsAsStated(_, _, _, _, _)
PlacementsAsStated(st, dist, host_teams, n_guests, order) ==
    IF order = <<>> \/ st.gph = <<>> THEN TRUE
    ELSE /\ PlacementAsStated(st, dist, host_teams, n_guests, Head(order))
         /\ PlacementsAsStated(PlaceGuest(st, dist, host_teams, n_guests, Head(order)),
                               dist, host_teams, n_guests, Tail(order))

\* C25: every guest of the diversity phase is put at the first open host of
\* the course with the smallest 1000 * (meetings with the guests already there
\* + meetings with the host, counted once) + km, and the pair counters of the
\* guest with the host and with every guest already there go up by one.
C25_PhaseBScoring ==
    (/\ pc = "hosts"
     /\ \A c \in Courses : host_teams_by_course[c] # <<>>
     /\ \A t \in Range(teams) : team_hosting_map[t] # None) =>
       \A o1 \in ShuffleOrders(GuestTeams(teams, team_hosting_map, appetizer)),
          o2 \in ShuffleOrders(GuestTeams(teams, team_hosting_map, main_course)),
          o3 \in ShuffleOrders(GuestTeams(teams, team_hosting_map, dessert)) :
          LET n_guests(c) == Len(GuestTeams(teams, team_hosting_map, c))
              s1 == DiversityCourse(EmptyDiversity(teams), distances, teams,
                       team_hosting_map, host_teams_by_course, appetizer, o1)
              s2 == DiversityCourse(s1, distances, teams,
                       team_hosting_map, host_teams_by_course, main_course, o2)
          IN /\ PlacementsAsStated(EmptyDiversity(teams), distances,
                    host_teams_by_course[appetizer], n_guests(appetizer), o1)
             /\ PlacementsAsStated(s1, distances,
                    host_teams_by_course[main_course], n_guests(main_course), o2)
             /\ PlacementsAsStated(s2, distances,
                    host_teams_by_course[dessert], n_guests(dessert), o3)

\* --- improve_guest_distribution, the moves of one pass ----------------------
\* The first pass over the solution loaded by run_additional_optimization.
FirstPass ==
    improve_guest_distribution(assignments, guests_per_host, distances,
                               host_teams_by_course, 1)

\* The guest visits the pass moved: team and course.
Moved ==
    {v \in (DOMAIN assignments) \X Courses :
        FirstPass.asg[v[1]].hosts[v[2]] # assignments[v[1]].hosts[v[2]]}

\* C26: every move of improve_guest_distribution takes a guest from an
\* overloaded host to an underloaded host of the same course and reduces the
\* team's stored leg of that course, and its total_distance, by more than
\* 0.1 km; a pass applies at most one move per course.
C26_PhaseDMoves ==
    pc = "add_converted" =>
       /\ FirstPass.moves = Cardinality(Moved)
       /\ \A v \in Moved :
            LET t == v[1]
                c == v[2]
                from == assignments[t].hosts[c]
                to == FirstPass.asg[t].hosts[c]
                hosts_in_course == host_teams_by_course[c]
                saving == assignments[t].distances[c] - FirstPass.asg[t].distances[c]
            IN /\ from \in Range(overloaded_hosts(guests_per_host, assignments,
                                                  hosts_in_course, c))
               /\ to \in Range(underloaded_hosts(guests_per_host, assignments,
                                                 hosts_in_course, c))
               /\ saving > MinImprovement
               /\ FirstPass.asg[t].total_distance
                     = assignments[t].total_distance - saving

\* --- the guest lists and the returned assignments ---------------------------
\* C27: at the end of the heuristic, for every course and every host of it,
\* guests_per_host[host] is exactly the set of teams whose final host of the
\* course is that host.
C27_GuestListsMatchHosts ==
    pc = "returned" /\ guests_per_host # <<>> =>
       \A c \in Courses : \A h \in Range(host_teams_by_course[c]) :
          Range(guests_per_host[h])
             = {t \in DOMAIN assignments : assignments[t].hosts[c] = h}

MaxAdjusted == 1          \* assignments edited: those of teams 1..MaxAdjusted
MaxPosted == 2            \* host ids posted: none or a team of 1..MaxPosted

PostedHosts == [Courses -> {None} \cup 1..MaxPosted]

\* The posted course and hosts are stored on the row; distances and guests
\* are kept, no other row is touched.  The requests of a sequence follow one
\* another: the row is edited before the additional optimization is called.
AdjustAssignment ==
    \E row \in team_assignments, course \in Courses, hosts \in PostedHosts :
        /\ pc = "start"
        /\ row.team <= MaxAdjusted
        /\ team_assignments' =
              (team_assignments \ {row})
                 \cup {[row EXCEPT !.course = course, !.hosts = hosts]}
        /\ UNCHANGED <<optVars, event_status, runs, next_run_id, req, svcVars>>

NextAdjust ==
    \/ NextAdd
    \/ AdjustAssignment

\* An event of three teams that start_optimization has optimized: a completed
\* run with its rows.
InitAdjust ==
    /\ OptimizerInit
    /\ SvcIdle
    /\ team_db \in [1..MinTeams -> {FullTeam(p) : p \in Positions}]
    /\ kitchen_db = <<>>
    /\ kitchen_rows = {}
    /\ after_party_db = NoParty
    /\ req = [r \in Requests |-> IdleRequest]
    /\ \E res \in OptimizeResults(team_db, kitchen_db, after_party_db, {},
                                  InitProgress) :
          /\ res.ok
          /\ event_status = "optimized"
          /\ runs = SaveRun(<<>>, 1, RunRow("completed"))
          /\ team_assignments = PersistedRows(1, res)
          /\ next_run_id = 2

SpecAdjust == InitAdjust /\ [][NextAdjust]_vars

\* C29: for every persisted TeamAssignment A of the latest run with hosted
\* course c, a team B is in A.guests if and only if B's assignment in the same
\* run has hosts_<c> equal to A.team, and A.hosts_<c> is null.
C29_PersistedGuestsConsistent ==
    \A A \in team_assignments :
       A.run = latest_optimization(runs) /\ A.course \in Courses =>
          /\ A.guests = {B.team : B \in {x \in team_assignments :
                                            /\ x.run = A.run
                                            /\ x.hosts[A.course] = A.team}}
          /\ A.hosts[A.course] = None

\* --- the progress snapshot at the end of optimize() -------------------------
\* C30: once optimize() has returned or raised, the progress snapshot is no
\* longer 'running': 'completed' with step = total_steps after a return, a
\* status other than 'running' after an exception.
C30_FinalSnapshot ==
    /\ pc = "returned" =>
          /\ cache.progress.status = "completed"
          /\ cache.progress.step2 = 2 * cache.progress.total_steps
    /\ pc = "raised" => cache.progress.status # "running"

====
